---- MODULE Spec2Model ----
(***************************************************************************)
(* Model of the convex-authz component: the compute-on-read resolver       *)
(* (queries.ts / mutations.ts / helpers.ts) and the precomputed index      *)
(* (indexed.ts).                                                           *)
(*                                                                         *)
(* Strings are sequences of tokens; the token ":" is the separator that    *)
(* String.split(":") and the template `${a}:${b}` act on.  Tables are      *)
(* sequences of rows in creation order (the order an index scan returns).  *)
(* A row's _id is its position in the table of the state it is read in.    *)
(***************************************************************************)
EXTENDS Integers, Sequences, FiniteSets, TLC

VARIABLES roleAssignments, permissionOverrides,
          effectiveRoles, effectivePermissions,
          now, roundTrip,
          call, relationships, traversal, auditLog,
          effectiveRelationships, userAttributes

vars == <<roleAssignments, permissionOverrides,
          effectiveRoles, effectivePermissions, now, roundTrip,
          call, relationships, traversal, auditLog,
          effectiveRelationships, userAttributes>>

\* what the specifications of the role and permission tables leave alone
extVars == <<call, relationships, traversal, auditLog, effectiveRelationships, userAttributes>>

\* the tables only the later specifications write
newVars == <<effectiveRelationships, userAttributes>>

stdVars == <<roleAssignments, permissionOverrides>>
idxVars == <<effectiveRoles, effectivePermissions>>

----------------------------------------------------------------------------
(* Bounds of the model *)

\* the clock runs from 1 to MaxTime
MaxTime == 3
\* rows of roleAssignments and permissionOverrides together
MaxStandardRows == 3
\* rows of effectiveRoles and of effectivePermissions
MaxEffectiveRoles == 2
MaxEffectivePermissions == 3
\* rows of effectiveRoles and effectivePermissions together, when rows carry
\* an expiresAt
MaxTimedRows == 2
\* rows of roleAssignments and effectiveRoles together, when both are exercised
MaxRoleRows == 2

----------------------------------------------------------------------------
(* Strings *)

COLON == ":"
STAR == <<"*">>
STAR_STAR == <<"*", ":", "*">>
DOCS_READ == <<"documents", ":", "read">>
DOCS_WRITE == <<"documents", ":", "write">>
DOCS_STAR == <<"documents", ":", "*">>
STAR_READ == <<"*", ":", "read">>
SETTINGS_READ == <<"settings", ":", "read">>
INVALID == <<"invalid">>
A_B_C == <<"a", ":", "b", ":", "c">>

\* absent optional values: scope undefined, expiresAt undefined
NoScope == <<>>
NoExpiry == 0

ORG_ACME == <<"org", "acme">>
ORG_BETA == <<"org", "betaco">>

\* String.prototype.split(":") on a token string: the parts between colons
RECURSIVE Split(_)
Split(s) ==
  IF s = <<>> THEN << <<>> >>
  ELSE LET rest == Split(Tail(s))
       IN IF Head(s) = COLON
          THEN << <<>> >> \o rest
          ELSE << <<Head(s)>> \o Head(rest) >> \o Tail(rest)

\* `${a}:${b}`
Join(a, b) == a \o <<COLON>> \o b

\* the result of a call that either returns a value or throws
Returned(v) == [threw |-> FALSE, value |-> v]
Thrown == [threw |-> TRUE, value |-> FALSE]

----------------------------------------------------------------------------
(* helpers.ts *)

isExpired(expiresAt) ==
  IF expiresAt = NoExpiry THEN FALSE ELSE now > expiresAt

\* parsePermission throws unless split(":") yields exactly two parts
parsePermissionThrows(permission) == Len(Split(permission)) # 2

parsePermission(permission) ==
  [resource |-> Split(permission)[1], action |-> Split(permission)[2]]

buildPermission(resource, action) == Join(resource, action)

\* fault: "*" in the action position of the pattern is compared literally
matchesPermissionPatternLiteralAction(permission, pattern) ==
  IF pattern = STAR THEN Returned(TRUE)
  ELSE IF parsePermissionThrows(permission) THEN Thrown
  ELSE IF parsePermissionThrows(pattern) THEN Thrown
  ELSE LET perm == parsePermission(permission)
           pat == parsePermission(pattern)
           resourceMatch == pat.resource = STAR \/ pat.resource = perm.resource
           actionMatch == pat.action = perm.action
       IN Returned(resourceMatch /\ actionMatch)

matchesPermissionPattern(permission, pattern) ==
  IF pattern = STAR THEN Returned(TRUE)
  ELSE IF parsePermissionThrows(permission) THEN Thrown
  ELSE IF parsePermissionThrows(pattern) THEN Thrown
  ELSE LET perm == parsePermission(permission)
           pat == parsePermission(pattern)
           resourceMatch == pat.resource = STAR \/ pat.resource = perm.resource
           actionMatch == pat.action = STAR \/ pat.action = perm.action
       IN Returned(resourceMatch /\ actionMatch)

\* fault: a scoped row also answers a query that names no scope
matchesScopeAnyTarget(scope, targetScope) ==
  IF scope = NoScope THEN TRUE
  ELSE IF targetScope = NoScope THEN TRUE
  ELSE scope[1] = targetScope[1] /\ scope[2] = targetScope[2]

matchesScope(scope, targetScope) ==
  IF scope = NoScope THEN TRUE
  ELSE IF targetScope = NoScope THEN FALSE
  ELSE scope[1] = targetScope[1] /\ scope[2] = targetScope[2]

----------------------------------------------------------------------------
(* sequence utilities standing for the datastore primitives *)

\* positions of the rows an index scan returns, in table order
\* (keep[n] tells whether the scan keeps the n-th row)
RECURSIVE Positions(_, _)
Positions(keep, i) ==
  IF i > Len(keep) THEN <<>>
  ELSE (IF keep[i] THEN <<i>> ELSE <<>>) \o Positions(keep, i + 1)

\* ctx.db.delete(row at position i)
DeleteAt(table, i) ==
  [j \in 1..(Len(table) - 1) |-> IF j < i THEN table[j] ELSE table[j + 1]]

\* ctx.db.patch(row at position i, fields)
PatchAt(table, i, row) == [table EXCEPT ![i] = row]

----------------------------------------------------------------------------
(* Inputs of the model *)

Users == {"alice", "bob"}
Roles == {"admin", "viewer"}
StoredScopes == {NoScope, ORG_ACME}
QueryScopes == {NoScope, ORG_ACME, ORG_BETA}
Effects == {"allow", "deny"}
\* expiresAt arguments: absent, or a timestamp the clock starts before,
\* reaches and passes
ExpiryValues == {NoExpiry, 2}

\* permission strings callers store through grantPermission / denyPermission
OverridePermissions == {DOCS_READ, STAR, INVALID}
\* permission strings callers ask about
QueryPermissions ==
  {DOCS_READ, DOCS_WRITE, DOCS_STAR, SETTINGS_READ, STAR_READ, STAR_STAR, STAR,
   INVALID, A_B_C}
WellFormed(permission) == ~parsePermissionThrows(permission)

\* rolePermissions arguments of checkPermission (role -> patterns)
RoleMapPlain == [r \in Roles |-> IF r = "admin" THEN <<DOCS_READ, DOCS_STAR>>
                                 ELSE <<DOCS_READ>>]
RoleMapWild == [r \in {"admin"} |-> <<STAR>>]
RoleMapBad == [r \in Roles |-> IF r = "admin" THEN <<INVALID, DOCS_WRITE>>
                               ELSE <<STAR_READ>>]
RoleMaps == {RoleMapPlain, RoleMapWild, RoleMapBad}

----------------------------------------------------------------------------
(* queries.ts *)

AssignmentRow(userId, role, scope, expiresAt) ==
  [userId |-> userId, role |-> role, scope |-> scope, expiresAt |-> expiresAt]

\* an optional reason / createdBy / assignedBy / revokedBy left out of a call
NoReason == ""
NoActor == ""

OverrideRow(userId, permission, effect, scope, expiresAt, reason, createdBy) == [userId |-> userId, permission |-> permission, effect |-> effect, scope |-> scope, expiresAt |-> expiresAt, reason |-> reason, createdBy |-> createdBy]

\* fault: the audit row does not name the user it is about
AuditRowAnonymous(timestamp, action, userId, actorId, details) == [timestamp |-> timestamp, action |-> action, userId |-> "", actorId |-> actorId, details |-> details]

\* an auditLog row; details holds the fields the action records
AuditRow(timestamp, action, userId, actorId, details) == [timestamp |-> timestamp, action |-> action, userId |-> userId, actorId |-> actorId, details |-> details]

\* a query result: threw, or the returned object (0 / "none" for absent fields)
NoRole == "none"
NoOverride == 0
CheckResult(allowed, matchedRole, matchedOverride) ==
  [threw |-> FALSE, allowed |-> allowed,
   matchedRole |-> matchedRole, matchedOverride |-> matchedOverride]
CheckThrown ==
  [threw |-> TRUE, allowed |-> FALSE,
   matchedRole |-> NoRole, matchedOverride |-> NoOverride]

\* the handler, over the table it queries
hasRoleOn(table, userId, role, scope) ==
  LET assignments ==
        Positions([n \in 1..Len(table) |->
                   LET a == table[n]
                   IN /\ a.userId = userId
                      /\ a.role = role], 1)
  IN \E k \in 1..Len(assignments) :
       LET a == table[assignments[k]]
       IN IF isExpired(a.expiresAt) THEN FALSE
          ELSE matchesScope(a.scope, scope)

hasRole(userId, role, scope) == hasRoleOn(roleAssignments, userId, role, scope)

\* one of the two loops over validOverrides: the first row of the given effect
\* that matches, or a throw of matchesPermissionPattern on the way to it
RECURSIVE overrideLoop(_, _, _, _, _, _)
overrideLoop(overrides, validOverrides, effect, permission, scope, k) ==
  IF k > Len(validOverrides) THEN [threw |-> FALSE, found |-> NoOverride]
  ELSE LET override == overrides[validOverrides[k]]
       IN IF override.effect # effect
          THEN overrideLoop(overrides, validOverrides, effect, permission,
                            scope, k + 1)
          ELSE LET m == matchesPermissionPattern(permission, override.permission)
               IN IF m.threw THEN [threw |-> TRUE, found |-> NoOverride]
                  ELSE IF m.value /\ matchesScope(override.scope, scope)
                  THEN [threw |-> FALSE, found |-> validOverrides[k]]
                  ELSE overrideLoop(overrides, validOverrides, effect,
                                    permission, scope, k + 1)

\* the inner loop over one role's patterns
RECURSIVE rolePermLoop(_, _, _)
rolePermLoop(rolePerms, permission, j) ==
  IF j > Len(rolePerms) THEN Returned(FALSE)
  ELSE LET m == matchesPermissionPattern(permission, rolePerms[j])
       IN IF m.threw THEN Thrown
          ELSE IF m.value THEN Returned(TRUE)
          ELSE rolePermLoop(rolePerms, permission, j + 1)

\* the outer loop over validAssignments
RECURSIVE roleLoop(_, _, _, _, _)
roleLoop(assignments, validAssignments, permission, rolePermissions, k) ==
  IF k > Len(validAssignments) THEN CheckResult(FALSE, NoRole, NoOverride)
  ELSE LET assignment == assignments[validAssignments[k]]
       IN IF assignment.role \notin DOMAIN rolePermissions
          THEN roleLoop(assignments, validAssignments, permission,
                        rolePermissions, k + 1)
          ELSE LET g == rolePermLoop(rolePermissions[assignment.role],
                                     permission, 1)
               IN IF g.threw THEN CheckThrown
                  ELSE IF g.value
                  THEN CheckResult(TRUE, assignment.role, NoOverride)
                  ELSE roleLoop(assignments, validAssignments, permission,
                                rolePermissions, k + 1)

\* the handler, over the two tables it queries
checkPermissionOn(overrides, assignments, userId, permission, scope, rolePermissions) ==
  LET validOverrides ==
        Positions([n \in 1..Len(overrides) |->
                   LET o == overrides[n]
                   IN /\ o.userId = userId
                      /\ ~isExpired(o.expiresAt)], 1)
      deny == overrideLoop(overrides, validOverrides, "deny",
                           permission, scope, 1)
      allow == overrideLoop(overrides, validOverrides, "allow",
                            permission, scope, 1)
      validAssignments ==
        Positions([n \in 1..Len(assignments) |->
                   LET a == assignments[n]
                   IN /\ a.userId = userId
                      /\ ~isExpired(a.expiresAt)
                      /\ matchesScope(a.scope, scope)], 1)
  IN IF deny.threw THEN CheckThrown
     ELSE IF deny.found # NoOverride
     THEN CheckResult(FALSE, NoRole, deny.found)
     ELSE IF allow.threw THEN CheckThrown
     ELSE IF allow.found # NoOverride
     THEN CheckResult(TRUE, NoRole, allow.found)
     ELSE roleLoop(assignments, validAssignments, permission,
                   rolePermissions, 1)

checkPermission(userId, permission, scope, rolePermissions) ==
  checkPermissionOn(permissionOverrides, roleAssignments,
                    userId, permission, scope, rolePermissions)

\* helpers.ts checkOverrides over the rows it is handed: allowed is the
\* answer when an override applies (applies = FALSE stands for null)
checkOverrides(overrides, permission, scope) ==
  LET all == [n \in 1..Len(overrides) |-> n]
      deny == overrideLoop(overrides, all, "deny", permission, scope, 1)
      allow == overrideLoop(overrides, all, "allow", permission, scope, 1)
  IN IF deny.threw THEN [threw |-> TRUE, applies |-> FALSE, allowed |-> FALSE]
     ELSE IF deny.found # NoOverride
     THEN [threw |-> FALSE, applies |-> TRUE, allowed |-> FALSE]
     ELSE IF allow.threw
     THEN [threw |-> TRUE, applies |-> FALSE, allowed |-> FALSE]
     ELSE IF allow.found # NoOverride
     THEN [threw |-> FALSE, applies |-> TRUE, allowed |-> TRUE]
     ELSE [threw |-> FALSE, applies |-> FALSE, allowed |-> FALSE]

\* a Set<string> in insertion order: add, delete, Array.from
SetAdd(set, p) ==
  IF \E i \in 1..Len(set) : set[i] = p THEN set ELSE Append(set, p)
SetDelete(set, p) ==
  LET keep == Positions([i \in 1..Len(set) |-> set[i] # p], 1)
  IN [k \in 1..Len(keep) |-> set[keep[k]]]

\* `for (const perm of rolePerms) permissions.add(perm)`
RECURSIVE addRolePerms(_, _, _)
addRolePerms(permissions, rolePerms, j) ==
  IF j > Len(rolePerms) THEN permissions
  ELSE addRolePerms(SetAdd(permissions, rolePerms[j]), rolePerms, j + 1)

\* `for (const role of roles)`: the union of the patterns of the roles held
RECURSIVE collectRolePerms(_, _, _, _)
collectRolePerms(permissions, roles, rolePermissions, k) ==
  IF k > Len(roles) THEN permissions
  ELSE collectRolePerms(
         IF roles[k] \in DOMAIN rolePermissions
         THEN addRolePerms(permissions, rolePermissions[roles[k]], 1)
         ELSE permissions,
         roles, rolePermissions, k + 1)

\* `for (const override of validOverrides)`: allow adds, deny deletes and
\* records; acc holds permissions and deniedPermissions so far
RECURSIVE applyOverrides(_, _, _, _)
applyOverrides(acc, overrides, validOverrides, k) ==
  IF k > Len(validOverrides) THEN acc
  ELSE LET override == overrides[validOverrides[k]]
       IN applyOverrides(
            IF override.effect = "allow"
            THEN [acc EXCEPT !.permissions = SetAdd(@, override.permission)]
            ELSE IF override.effect = "deny"
            THEN [permissions |-> SetDelete(acc.permissions,
                                            override.permission),
                  deniedPermissions |-> Append(acc.deniedPermissions,
                                               override.permission)]
            ELSE acc,
            overrides, validOverrides, k + 1)

getEffectivePermissions(userId, rolePermissions, scope) ==
  LET validAssignments ==
        Positions([n \in 1..Len(roleAssignments) |->
                   LET a == roleAssignments[n]
                   IN /\ a.userId = userId
                      /\ ~isExpired(a.expiresAt)
                      /\ matchesScope(a.scope, scope)], 1)
      roles == [k \in 1..Len(validAssignments) |->
                roleAssignments[validAssignments[k]].role]
      validOverrides ==
        Positions([n \in 1..Len(permissionOverrides) |->
                   LET o == permissionOverrides[n]
                   IN /\ o.userId = userId
                      /\ ~isExpired(o.expiresAt)
                      /\ matchesScope(o.scope, scope)], 1)
      applied ==
        applyOverrides([permissions |->
                          collectRolePerms(<<>>, roles, rolePermissions, 1),
                        deniedPermissions |-> <<>>],
                       permissionOverrides, validOverrides, 1)
  IN [permissions |-> applied.permissions, roles |-> roles,
      deniedPermissions |-> applied.deniedPermissions]

----------------------------------------------------------------------------
(* mutations.ts; enableAudit is left absent, so no auditLog row is written. *)
(* Each mutation constrains the tables of its own strategy only.           *)

\* the scope comparison the mutations spell out
sameScope(a, b) ==
  IF a = NoScope /\ b = NoScope THEN TRUE
  ELSE IF a = NoScope \/ b = NoScope THEN FALSE
  ELSE a[1] = b[1] /\ a[2] = b[2]

\* Array.prototype.find over an index scan: first position kept, or 0
FindFirst(keep) ==
  LET found == Positions(keep, 1)
  IN IF found = <<>> THEN 0 ELSE found[1]

\* fault: no duplicate is ever found
assignRoleDuplicateNever(userId, role, scope) == 0

\* fault: an expired assignment counts as a duplicate
assignRoleDuplicateIgnoringExpiry(userId, role, scope) ==
  FindFirst([n \in 1..Len(roleAssignments) |->
             LET a == roleAssignments[n]
             IN /\ a.userId = userId
                /\ a.role = role
                /\ sameScope(a.scope, scope)])

\* the non-expired assignment with the same role and scope, or 0
assignRoleDuplicate(userId, role, scope) ==
  FindFirst([n \in 1..Len(roleAssignments) |->
             LET a == roleAssignments[n]
             IN /\ a.userId = userId
                /\ a.role = role
                /\ ~isExpired(a.expiresAt)
                /\ sameScope(a.scope, scope)])

\* throws ALREADY_EXISTS (no write) when a duplicate exists
assignRole(userId, role, scope, expiresAt, assignedBy, enableAudit) ==
  /\ IF assignRoleDuplicate(userId, role, scope) # 0
     THEN UNCHANGED <<roleAssignments, auditLog>>
     ELSE /\ roleAssignments' =
               Append(roleAssignments,
                      AssignmentRow(userId, role, scope, expiresAt))
          /\ auditLog' =
               IF enableAudit
               THEN Append(auditLog,
                           AuditRow(now, "role_assigned", userId, assignedBy,
                                    [role |-> role, scope |-> scope]))
               ELSE auditLog
  /\ UNCHANGED permissionOverrides

\* what assignRole hands back: the ALREADY_EXISTS error, or the new row's id
\* (a row's id is its place in creation order when the call runs)
assignRoleResult(userId, role, scope) ==
  IF assignRoleDuplicate(userId, role, scope) # 0
  THEN [threw |-> TRUE, value |-> "ALREADY_EXISTS"]
  ELSE Returned(Len(roleAssignments) + 1)

\* fault: the row to revoke is looked for among all of the user's roles
revokeRoleFindAnyRole(userId, role, scope) ==
  FindFirst([n \in 1..Len(roleAssignments) |->
             LET a == roleAssignments[n]
             IN /\ a.userId = userId
                /\ sameScope(a.scope, scope)])

\* `assignments.find(...)`: the first stored row of the triple, expired or not
revokeRoleFind(userId, role, scope) ==
  FindFirst([n \in 1..Len(roleAssignments) |->
             LET a == roleAssignments[n]
             IN /\ a.userId = userId
                /\ a.role = role
                /\ sameScope(a.scope, scope)])

revokeRole(userId, role, scope, revokedBy, enableAudit) ==
  LET toRevoke == revokeRoleFind(userId, role, scope)
  IN /\ IF toRevoke = 0
        THEN UNCHANGED <<roleAssignments, auditLog>>
        ELSE /\ roleAssignments' = DeleteAt(roleAssignments, toRevoke)
             /\ auditLog' =
                  IF enableAudit
                  THEN Append(auditLog,
                              AuditRow(now, "role_revoked", userId, revokedBy,
                                       [role |-> role, scope |-> scope]))
                  ELSE auditLog
     /\ UNCHANGED permissionOverrides

revokeRoleResult(userId, role, scope) == Returned(revokeRoleFind(userId, role, scope) # 0)

\* the rows `for (const assignment of assignments)` deletes
revokeAllRolesMatch(a, userId, scope) ==
  /\ a.userId = userId
  /\ scope # NoScope =>
       /\ a.scope # NoScope
       /\ a.scope[1] = scope[1]
       /\ a.scope[2] = scope[2]

revokeAllRoles(userId, scope, revokedBy, enableAudit) ==
  LET revoked == SelectSeq(roleAssignments,
                           LAMBDA a : revokeAllRolesMatch(a, userId, scope))
  IN /\ roleAssignments' =
          SelectSeq(roleAssignments,
                    LAMBDA a : ~revokeAllRolesMatch(a, userId, scope))
     /\ auditLog' =
          IF enableAudit
          THEN auditLog \o
                 [n \in 1..Len(revoked) |->
                    AuditRow(now, "role_revoked", userId, revokedBy,
                             [role |-> revoked[n].role,
                              scope |-> revoked[n].scope])]
          ELSE auditLog
     /\ UNCHANGED permissionOverrides

revokeAllRolesResult(userId, scope) ==
  Returned(Len(SelectSeq(roleAssignments,
                         LAMBDA a : revokeAllRolesMatch(a, userId, scope))))

\* fault: a repeated call inserts a second row
overrideDuplicateNever(userId, permission, scope) == 0

\* `existing.find(...)` of grantPermission and denyPermission: the first
\* non-expired row of the triple, or 0
overrideDuplicate(userId, permission, scope) ==
  FindFirst([n \in 1..Len(permissionOverrides) |->
             LET o == permissionOverrides[n]
             IN /\ o.userId = userId
                /\ o.permission = permission
                /\ ~isExpired(o.expiresAt)
                /\ sameScope(o.scope, scope)])

\* grantPermission and denyPermission differ in the effect they write and in
\* the action they log only
writeOverride(effect, userId, permission, scope, expiresAt, reason, createdBy, enableAudit) ==
  LET duplicate == overrideDuplicate(userId, permission, scope)
  IN /\ IF duplicate # 0
        THEN permissionOverrides' =
               PatchAt(permissionOverrides, duplicate,
                       [permissionOverrides[duplicate]
                          EXCEPT !.effect = effect, !.reason = reason,
                                 !.createdBy = createdBy,
                                 !.expiresAt = expiresAt])
        ELSE permissionOverrides' =
               Append(permissionOverrides,
                      OverrideRow(userId, permission, effect, scope,
                                  expiresAt, reason, createdBy))
     /\ auditLog' =
          IF enableAudit
          THEN Append(auditLog,
                      AuditRow(now,
                               IF effect = "allow" THEN "permission_granted"
                               ELSE "permission_denied",
                               userId, createdBy,
                               [permission |-> permission, scope |-> scope,
                                reason |-> reason]))
          ELSE auditLog
     /\ UNCHANGED roleAssignments

\* the id handed back: the patched row's, or the new row's
writeOverrideResult(userId, permission, scope) ==
  LET duplicate == overrideDuplicate(userId, permission, scope)
  IN Returned(IF duplicate # 0 THEN duplicate
              ELSE Len(permissionOverrides) + 1)

grantPermission(userId, permission, scope, expiresAt, reason, createdBy, enableAudit) == writeOverride("allow", userId, permission, scope, expiresAt, reason, createdBy, enableAudit)

denyPermission(userId, permission, scope, expiresAt, reason, createdBy, enableAudit) == writeOverride("deny", userId, permission, scope, expiresAt, reason, createdBy, enableAudit)

\* `existing.find(...)` of removePermissionOverride: the first stored row of
\* the triple, expired or not
removePermissionOverrideFind(userId, permission, scope) ==
  FindFirst([n \in 1..Len(permissionOverrides) |->
             LET o == permissionOverrides[n]
             IN /\ o.userId = userId
                /\ o.permission = permission
                /\ sameScope(o.scope, scope)])

removePermissionOverride(userId, permission, scope, removedBy, enableAudit) ==
  LET toRemove == removePermissionOverrideFind(userId, permission, scope)
  IN /\ IF toRemove = 0
        THEN UNCHANGED <<permissionOverrides, auditLog>>
        ELSE /\ permissionOverrides' = DeleteAt(permissionOverrides, toRemove)
             /\ auditLog' =
                  IF enableAudit
                  THEN Append(auditLog,
                              AuditRow(now,
                                       IF permissionOverrides[toRemove].effect
                                            = "allow"
                                       THEN "permission_denied"
                                       ELSE "permission_granted",
                                       userId, removedBy,
                                       [permission |-> permission,
                                        scope |-> scope,
                                        reason |-> "Override removed"]))
                  ELSE auditLog
     /\ UNCHANGED roleAssignments

removePermissionOverrideResult(userId, permission, scope) == Returned(removePermissionOverrideFind(userId, permission, scope) # 0)

AttributeRow(userId, key, value) == [userId |-> userId, key |-> key, value |-> value]

\* withIndex("by_user_and_key", ...).unique(): the position of the row, or 0
attributeFind(userId, key) ==
  FindFirst([n \in 1..Len(userAttributes) |->
             /\ userAttributes[n].userId = userId
             /\ userAttributes[n].key = key])

setAttribute(userId, key, value, setBy, enableAudit) ==
  LET existing == attributeFind(userId, key)
  IN /\ userAttributes' =
          IF existing # 0
          THEN PatchAt(userAttributes, existing,
                       [userAttributes[existing] EXCEPT !.value = value])
          ELSE Append(userAttributes, AttributeRow(userId, key, value))
     /\ auditLog' =
          IF enableAudit
          THEN Append(auditLog,
                      AuditRow(now, "attribute_set", userId, setBy,
                               [key |-> key, value |-> value]))
          ELSE auditLog

setAttributeResult(userId, key) ==
  LET existing == attributeFind(userId, key)
  IN Returned(IF existing # 0 THEN existing ELSE Len(userAttributes) + 1)

removeAttribute(userId, key, removedBy, enableAudit) ==
  LET existing == attributeFind(userId, key)
  IN IF existing = 0
     THEN UNCHANGED <<userAttributes, auditLog>>
     ELSE /\ userAttributes' = DeleteAt(userAttributes, existing)
          /\ auditLog' =
               IF enableAudit
               THEN Append(auditLog,
                           AuditRow(now, "attribute_removed", userId,
                                    removedBy, [key |-> key]))
               ELSE auditLog

removeAttributeResult(userId, key) == Returned(attributeFind(userId, key) # 0)

removeAllAttributes(userId, removedBy, enableAudit) ==
  LET attributes == SelectSeq(userAttributes, LAMBDA a : a.userId = userId)
  IN /\ userAttributes' =
          SelectSeq(userAttributes, LAMBDA a : a.userId # userId)
     /\ auditLog' =
          IF enableAudit
          THEN auditLog \o
                 [n \in 1..Len(attributes) |->
                    AuditRow(now, "attribute_removed", userId, removedBy,
                             [key |-> attributes[n].key])]
          ELSE auditLog

removeAllAttributesResult(userId) ==
  Returned(Len(SelectSeq(userAttributes, LAMBDA a : a.userId = userId)))

logPermissionCheck(userId, permission, result, scope, reason) ==
  auditLog' =
    Append(auditLog,
           AuditRow(now, "permission_check", userId, NoActor,
                    [permission |-> permission, result |-> result,
                     scope |-> scope, reason |-> reason]))

\* fault: the sweep also deletes the audit rows written before now
cleanupExpiredSweepingAudit ==
  /\ roleAssignments' =
       SelectSeq(roleAssignments, LAMBDA a : ~(a.expiresAt # NoExpiry
                                               /\ a.expiresAt < now))
  /\ permissionOverrides' =
       SelectSeq(permissionOverrides, LAMBDA o : ~(o.expiresAt # NoExpiry
                                                   /\ o.expiresAt < now))
  /\ auditLog' = SelectSeq(auditLog, LAMBDA e : ~(e.timestamp < now))

\* fault: the sweep takes every row that carries an expiresAt
sweepableAnyExpiry(expiresAt) == expiresAt # NoExpiry

\* `x.expiresAt && x.expiresAt < now`
sweepable(expiresAt) == expiresAt # NoExpiry /\ expiresAt < now

cleanupExpired ==
  /\ roleAssignments' =
       SelectSeq(roleAssignments,
                 LAMBDA assignment : ~sweepable(assignment.expiresAt))
  /\ permissionOverrides' =
       SelectSeq(permissionOverrides,
                 LAMBDA override : ~sweepable(override.expiresAt))
  /\ UNCHANGED auditLog

cleanupExpiredResult ==
  Returned([expiredRoles |->
              Len(SelectSeq(roleAssignments,
                            LAMBDA assignment : sweepable(assignment.expiresAt))),
            expiredOverrides |->
              Len(SelectSeq(permissionOverrides,
                            LAMBDA override : sweepable(override.expiresAt)))])

\* Date.now() advances between calls
Tick ==
  /\ now < MaxTime
  /\ now' = now + 1

----------------------------------------------------------------------------
(* indexed.ts: the read path *)

GLOBAL_SCOPE_KEY == <<"global">>

\* objectType / objectId absent (or empty): <<>>
buildScopeKeys(objectType, objectId) ==
  IF objectType # <<>> /\ objectId # <<>>
  THEN <<Join(objectType, objectId), GLOBAL_SCOPE_KEY>>
  ELSE <<GLOBAL_SCOPE_KEY>>

\* the scopeKey the mutations compute from args.scope
scopeKeyOf(scope) ==
  IF scope # NoScope THEN Join(<<scope[1]>>, <<scope[2]>>) ELSE GLOBAL_SCOPE_KEY

\* Array.from(new Set(candidates)): first occurrences, in order
RECURSIVE Dedupe(_)
Dedupe(seq) ==
  IF seq = <<>> THEN <<>>
  ELSE LET init == Dedupe(SubSeq(seq, 1, Len(seq) - 1))
           last == seq[Len(seq)]
       IN IF \E i \in 1..Len(init) : init[i] = last THEN init
          ELSE Append(init, last)

buildPermissionCandidates(permission) ==
  IF permission = STAR \/ permission = STAR_STAR THEN <<STAR, STAR_STAR>>
  ELSE IF parsePermissionThrows(permission) THEN <<permission>>
  ELSE LET parsed == parsePermission(permission)
       IN Dedupe(<<permission,
                   Join(parsed.resource, STAR),
                   Join(STAR, parsed.action),
                   STAR_STAR,
                   STAR>>)

EffectiveRoleRow(userId, role, scopeKey, expiresAt) ==
  [userId |-> userId, role |-> role, scopeKey |-> scopeKey,
   expiresAt |-> expiresAt]

EffectivePermissionRow(userId, permission, scopeKey, effect, sources, directGrant, directDeny, expiresAt) ==
  [userId |-> userId, permission |-> permission, scopeKey |-> scopeKey,
   effect |-> effect, sources |-> sources, directGrant |-> directGrant,
   directDeny |-> directDeny, expiresAt |-> expiresAt]

\* withIndex("by_user_permission_scope", ...): the positions of the rows
permissionRows(table, userId, permission, scopeKey) ==
  Positions([n \in 1..Len(table) |->
             LET p == table[n]
             IN /\ p.userId = userId
                /\ p.permission = permission
                /\ p.scopeKey = scopeKey], 1)

\* fault: the by_user_role_scope lookup finds nothing
roleRowsNone(table, userId, role, scopeKey) == <<>>

\* withIndex("by_user_role_scope", ...)
roleRows(table, userId, role, scopeKey) ==
  Positions([n \in 1..Len(table) |->
             LET r == table[n]
             IN /\ r.userId = userId
                /\ r.role = role
                /\ r.scopeKey = scopeKey], 1)

\* fault: the scan never looks at expiresAt
cachedExpiredIgnored(expiresAt) == FALSE

\* `cached.expiresAt && cached.expiresAt < Date.now()`
cachedExpired(expiresAt) == expiresAt # NoExpiry /\ expiresAt < now

\* the (scopeKey, permission) pairs in the order the nested loops visit them
RECURSIVE scanOrder(_, _, _, _)
scanOrder(scopeKeys, candidates, i, j) ==
  IF i > Len(scopeKeys) THEN <<>>
  ELSE IF j > Len(candidates) THEN scanOrder(scopeKeys, candidates, i + 1, 1)
  ELSE << <<scopeKeys[i], candidates[j]>> >>
         \o scanOrder(scopeKeys, candidates, i, j + 1)

\* fault: the scan stops at the first live row and answers by its effect
RECURSIVE fastLoopFirstRow(_, _, _, _, _)
fastLoopFirstRow(table, userId, pairs, k, allowed) ==
  IF k > Len(pairs) THEN Returned(allowed)
  ELSE LET cached == permissionRows(table, userId, pairs[k][2], pairs[k][1])
       IN IF Len(cached) > 1 THEN Thrown
          ELSE IF cached = <<>>
          THEN fastLoopFirstRow(table, userId, pairs, k + 1, allowed)
          ELSE IF cachedExpired(table[cached[1]].expiresAt)
          THEN fastLoopFirstRow(table, userId, pairs, k + 1, allowed)
          ELSE Returned(table[cached[1]].effect = "allow")

\* the loop body; .unique() throws when the index holds more than one row
RECURSIVE fastLoop(_, _, _, _, _)
fastLoop(table, userId, pairs, k, allowed) ==
  IF k > Len(pairs) THEN Returned(allowed)
  ELSE LET cached == permissionRows(table, userId, pairs[k][2], pairs[k][1])
       IN IF Len(cached) > 1 THEN Thrown
          ELSE IF cached = <<>>
          THEN fastLoop(table, userId, pairs, k + 1, allowed)
          ELSE IF cachedExpired(table[cached[1]].expiresAt)
          THEN fastLoop(table, userId, pairs, k + 1, allowed)
          ELSE IF table[cached[1]].effect = "deny"
          THEN Returned(FALSE)
          ELSE fastLoop(table, userId, pairs, k + 1, TRUE)

\* the handler, over the table it queries
checkPermissionFastOn(table, userId, permission, objectType, objectId) ==
  fastLoop(table, userId,
           scanOrder(buildScopeKeys(objectType, objectId),
                     buildPermissionCandidates(permission), 1, 1),
           1, FALSE)

checkPermissionFast(userId, permission, objectType, objectId) ==
  checkPermissionFastOn(effectivePermissions,
                        userId, permission, objectType, objectId)

RECURSIVE hasRoleLoop(_, _, _, _, _)
hasRoleLoop(table, userId, role, scopeKeys, k) ==
  IF k > Len(scopeKeys) THEN Returned(FALSE)
  ELSE LET cached == roleRows(table, userId, role, scopeKeys[k])
       IN IF Len(cached) > 1 THEN Thrown
          ELSE IF cached = <<>>
          THEN hasRoleLoop(table, userId, role, scopeKeys, k + 1)
          ELSE IF cachedExpired(table[cached[1]].expiresAt)
          THEN hasRoleLoop(table, userId, role, scopeKeys, k + 1)
          ELSE Returned(TRUE)

\* the handler, over the table it queries
hasRoleFastOn(table, userId, role, objectType, objectId) ==
  hasRoleLoop(table, userId, role, buildScopeKeys(objectType, objectId), 1)

hasRoleFast(userId, role, objectType, objectId) ==
  hasRoleFastOn(effectiveRoles, userId, role, objectType, objectId)

\* the rows getUserPermissionsFast returns (as positions), for a scopeKey
\* argument that is absent (<<>>), "global" or a specific key
getUserPermissionsFast(userId, scopeKey) ==
  LET scopeKeys == IF scopeKey # <<>>
                   THEN (IF scopeKey = GLOBAL_SCOPE_KEY THEN <<GLOBAL_SCOPE_KEY>>
                         ELSE <<scopeKey, GLOBAL_SCOPE_KEY>>)
                   ELSE <<GLOBAL_SCOPE_KEY>>
      scoped(k) == Positions([n \in 1..Len(effectivePermissions) |->
                              LET p == effectivePermissions[n]
                              IN /\ p.userId = userId
                                 /\ p.scopeKey = scopeKeys[k]], 1)
      permissions == IF Len(scopeKeys) = 1 THEN scoped(1)
                     ELSE scoped(1) \o scoped(2)
  IN SelectSeq(permissions,
               LAMBDA i : effectivePermissions[i].expiresAt = NoExpiry
                          \/ effectivePermissions[i].expiresAt > now)

----------------------------------------------------------------------------
(* indexed.ts: the write path.  A mutation whose .unique() throws is rolled *)
(* back by the datastore: it leaves every table as it was.                  *)

\* fault: the membership test of sources always fails
IncludesNever(seq, x) == FALSE

Includes(seq, x) == \E i \in 1..Len(seq) : seq[i] = x

\* Step 2 of assignRoleWithCompute: the loop over args.rolePermissions
RECURSIVE assignLoop(_, _, _, _, _, _, _)
assignLoop(table, userId, role, rolePermissions, scopeKey, expiresAt, k) ==
  IF k > Len(rolePermissions) THEN [threw |-> FALSE, table |-> table]
  ELSE LET existingPerm == permissionRows(table, userId, rolePermissions[k],
                                          scopeKey)
       IN IF Len(existingPerm) > 1 THEN [threw |-> TRUE, table |-> table]
          ELSE IF existingPerm # <<>>
          THEN LET row == table[existingPerm[1]]
                   patched ==
                     IF ~Includes(row.sources, role)
                     THEN PatchAt(table, existingPerm[1],
                                  [row EXCEPT !.sources = Append(@, role)])
                     ELSE table
               IN assignLoop(patched, userId, role, rolePermissions, scopeKey,
                             expiresAt, k + 1)
          ELSE assignLoop(
                 Append(table,
                        EffectivePermissionRow(userId, rolePermissions[k],
                                               scopeKey, "allow", <<role>>,
                                               FALSE, FALSE, expiresAt)),
                 userId, role, rolePermissions, scopeKey, expiresAt, k + 1)

assignRoleWithCompute(userId, role, rolePermissions, scope, expiresAt) ==
  LET scopeKey == scopeKeyOf(scope)
      existing == roleRows(effectiveRoles, userId, role, scopeKey)
      roles == IF existing # <<>>
               THEN PatchAt(effectiveRoles, existing[1],
                            [effectiveRoles[existing[1]]
                               EXCEPT !.expiresAt = expiresAt])
               ELSE Append(effectiveRoles,
                           EffectiveRoleRow(userId, role, scopeKey, expiresAt))
      perms == assignLoop(effectivePermissions, userId, role, rolePermissions,
                          scopeKey, expiresAt, 1)
  IN IF Len(existing) > 1 \/ perms.threw
     THEN UNCHANGED idxVars
     ELSE /\ effectiveRoles' = roles
          /\ effectivePermissions' = perms.table

\* Step 2 of revokeRoleWithCompute: the loop over args.rolePermissions
RECURSIVE revokeLoop(_, _, _, _, _, _)
revokeLoop(table, userId, role, rolePermissions, scopeKey, k) ==
  IF k > Len(rolePermissions) THEN [threw |-> FALSE, table |-> table]
  ELSE LET existingPerm == permissionRows(table, userId, rolePermissions[k],
                                          scopeKey)
       IN IF Len(existingPerm) > 1 THEN [threw |-> TRUE, table |-> table]
          ELSE IF existingPerm # <<>>
          THEN LET row == table[existingPerm[1]]
                   sources == SelectSeq(row.sources, LAMBDA x : x # role)
                   updated ==
                     IF Len(sources) = 0
                     THEN DeleteAt(table, existingPerm[1])
                     ELSE PatchAt(table, existingPerm[1],
                                  [row EXCEPT !.sources = sources])
               IN revokeLoop(updated, userId, role, rolePermissions, scopeKey,
                             k + 1)
          ELSE revokeLoop(table, userId, role, rolePermissions, scopeKey, k + 1)

\* fault: the revocation deletes the role row and skips Step 2
revokeRoleWithoutStep2(userId, role, rolePermissions, scope) ==
  LET scopeKey == scopeKeyOf(scope)
      existing == roleRows(effectiveRoles, userId, role, scopeKey)
  IN IF Len(existing) > 1 \/ existing = <<>>
     THEN UNCHANGED idxVars
     ELSE /\ effectiveRoles' = DeleteAt(effectiveRoles, existing[1])
          /\ effectivePermissions' = effectivePermissions

\* fault: Step 2 runs although the user has no such effectiveRoles row
revokeRoleWithoutGuard(userId, role, rolePermissions, scope) ==
  LET scopeKey == scopeKeyOf(scope)
      existing == roleRows(effectiveRoles, userId, role, scopeKey)
      perms == revokeLoop(effectivePermissions, userId, role, rolePermissions,
                          scopeKey, 1)
  IN IF Len(existing) > 1 \/ perms.threw
     THEN UNCHANGED idxVars
     ELSE /\ effectiveRoles' = IF existing = <<>> THEN effectiveRoles
                                ELSE DeleteAt(effectiveRoles, existing[1])
          /\ effectivePermissions' = perms.table

\* what revokeRoleWithCompute returns
revokeRoleWithComputeResult(userId, role, rolePermissions, scope) ==
  LET scopeKey == scopeKeyOf(scope)
      existing == roleRows(effectiveRoles, userId, role, scopeKey)
  IN IF Len(existing) > 1 THEN Thrown
     ELSE IF existing = <<>> THEN Returned(FALSE)
     ELSE IF revokeLoop(effectivePermissions, userId, role, rolePermissions,
                        scopeKey, 1).threw
     THEN Thrown
     ELSE Returned(TRUE)

\* returns false (no write) when the user has no such effectiveRoles row
revokeRoleWithCompute(userId, role, rolePermissions, scope) ==
  LET scopeKey == scopeKeyOf(scope)
      existing == roleRows(effectiveRoles, userId, role, scopeKey)
      perms == revokeLoop(effectivePermissions, userId, role, rolePermissions,
                          scopeKey, 1)
  IN IF Len(existing) > 1 \/ existing = <<>> \/ perms.threw
     THEN UNCHANGED idxVars
     ELSE /\ effectiveRoles' = DeleteAt(effectiveRoles, existing[1])
          /\ effectivePermissions' = perms.table

\* fault: the upsert replaces the row, dropping the roles that sourced it
writeDirectClearingSources(effect, userId, permission, scope, expiresAt) ==
  LET scopeKey == scopeKeyOf(scope)
      existing == permissionRows(effectivePermissions, userId, permission,
                                 scopeKey)
      row == EffectivePermissionRow(userId, permission, scopeKey, effect, <<>>,
                                    effect = "allow", effect = "deny",
                                    expiresAt)
  IN /\ IF Len(existing) > 1
        THEN UNCHANGED effectivePermissions
        ELSE IF existing # <<>>
        THEN effectivePermissions' =
               PatchAt(effectivePermissions, existing[1], row)
        ELSE effectivePermissions' = Append(effectivePermissions, row)
     /\ UNCHANGED effectiveRoles

\* grantPermissionDirect and denyPermissionDirect differ in the effect and
\* the flag they write
writeDirect(effect, userId, permission, scope, expiresAt) ==
  LET scopeKey == scopeKeyOf(scope)
      existing == permissionRows(effectivePermissions, userId, permission,
                                 scopeKey)
  IN /\ IF Len(existing) > 1
        THEN UNCHANGED effectivePermissions
        ELSE IF existing # <<>>
        THEN effectivePermissions' =
               PatchAt(effectivePermissions, existing[1],
                       IF effect = "allow"
                       THEN [effectivePermissions[existing[1]]
                               EXCEPT !.effect = "allow",
                                      !.directGrant = TRUE,
                                      !.expiresAt = expiresAt]
                       ELSE [effectivePermissions[existing[1]]
                               EXCEPT !.effect = "deny",
                                      !.directDeny = TRUE,
                                      !.expiresAt = expiresAt])
        ELSE effectivePermissions' =
               Append(effectivePermissions,
                      EffectivePermissionRow(
                        userId, permission, scopeKey, effect, <<>>,
                        effect = "allow", effect = "deny", expiresAt))
     /\ UNCHANGED effectiveRoles

\* indexed.ts cleanupExpired: deletes the rows of both derived indexes whose
\* expiresAt is set and earlier than Date.now()
cleanupExpiredIndexed ==
  /\ effectivePermissions' =
       SelectSeq(effectivePermissions,
                 LAMBDA perm : ~(perm.expiresAt # NoExpiry
                                 /\ perm.expiresAt < now))
  /\ effectiveRoles' =
       SelectSeq(effectiveRoles,
                 LAMBDA role : ~(role.expiresAt # NoExpiry
                                 /\ role.expiresAt < now))

grantPermissionDirect(userId, permission, scope, expiresAt) ==
  writeDirect("allow", userId, permission, scope, expiresAt)

denyPermissionDirect(userId, permission, scope, expiresAt) ==
  writeDirect("deny", userId, permission, scope, expiresAt)

----------------------------------------------------------------------------
(* Specifications *)

\* history of the last two index mutations: whether they were an
\* assignRoleWithCompute for a user without index rows, followed directly by
\* the revokeRoleWithCompute with the same arguments
\* no helper call, no traversal in progress
NoCall == [phase |-> "none"]
NoTraversal == [phase |-> "none"]

Idle == [phase |-> "idle", userId |-> "", role |-> "", scope |-> NoScope]
RoundTrip(phase, userId, role, scope) ==
  [phase |-> phase, userId |-> userId, role |-> role, scope |-> scope]

\* no row of either derived index belongs to the user
NoIndexRows(userId) ==
  /\ \A i \in 1..Len(effectiveRoles) : effectiveRoles[i].userId # userId
  /\ \A i \in 1..Len(effectivePermissions) :
       effectivePermissions[i].userId # userId

Init ==
  /\ roleAssignments = <<>>
  /\ permissionOverrides = <<>>
  /\ effectiveRoles = <<>>
  /\ effectivePermissions = <<>>
  /\ now = 1
  /\ roundTrip = Idle
  /\ call = NoCall
  /\ relationships = <<>>
  /\ traversal = NoTraversal
  /\ auditLog = <<>>
  /\ effectiveRelationships = <<>>
  /\ userAttributes = <<>>

\* permission strings callers store through the *Direct mutations
DirectPermissions == {DOCS_READ, STAR}

\* the calls the callers make: alice with every argument, bob with one
RoleCalls ==
  ({"alice"} \X Roles \X StoredScopes \X ExpiryValues)
    \cup {<<"bob", "admin", NoScope, NoExpiry>>}
OverrideCalls ==
  ({"alice"} \X OverridePermissions \X StoredScopes \X ExpiryValues)
    \cup {<<"bob", STAR, NoScope, NoExpiry>>}
DirectCalls ==
  ({"alice"} \X DirectPermissions \X StoredScopes \X ExpiryValues)
    \cup {<<"bob", STAR, NoScope, NoExpiry>>}
Untimed(calls) == {c \in calls : c[4] = NoExpiry}

(* SpecStd: the compute-on-read strategy, with expiry *)

StdFits == Len(roleAssignments') + Len(permissionOverrides') <= MaxStandardRows

StdAssign ==
  \E c \in RoleCalls :
    /\ assignRole(c[1], c[2], c[3], c[4], NoActor, FALSE)
    /\ StdFits
    /\ UNCHANGED <<idxVars, now, roundTrip, extVars>>
StdRevoke ==
  \E c \in RoleCalls :
    /\ revokeRole(c[1], c[2], c[3], NoActor, FALSE)
    /\ UNCHANGED <<idxVars, now, roundTrip, extVars>>
StdGrant ==
  \E c \in OverrideCalls :
    /\ grantPermission(c[1], c[2], c[3], c[4], NoReason, NoActor, FALSE)
    /\ StdFits
    /\ UNCHANGED <<idxVars, now, roundTrip, extVars>>
StdDeny ==
  \E c \in OverrideCalls :
    /\ denyPermission(c[1], c[2], c[3], c[4], NoReason, NoActor, FALSE)
    /\ StdFits
    /\ UNCHANGED <<idxVars, now, roundTrip, extVars>>
StdTick == Tick /\ UNCHANGED <<stdVars, idxVars, roundTrip, extVars>>

NextStd == StdAssign \/ StdRevoke \/ StdGrant \/ StdDeny \/ StdTick

SpecStd == Init /\ [][NextStd]_vars

(* SpecIdx: the precomputed-index strategy without expiry; each role is   *)
(* always passed its RoleMapPlain list                                    *)

IdxFits ==
  /\ Len(effectiveRoles') <= MaxEffectiveRoles
  /\ Len(effectivePermissions') <= MaxEffectivePermissions

IdxAssign ==
  \E c \in Untimed(RoleCalls) :
    /\ assignRoleWithCompute(c[1], c[2], RoleMapPlain[c[2]], c[3], NoExpiry)
    /\ IdxFits
    /\ roundTrip' = IF NoIndexRows(c[1]) /\ ~NoIndexRows(c[1])'
                    THEN RoundTrip("assigned", c[1], c[2], c[3]) ELSE Idle
    /\ UNCHANGED <<stdVars, now, extVars>>
IdxRevoke ==
  \E c \in Untimed(RoleCalls) :
    /\ revokeRoleWithCompute(c[1], c[2], RoleMapPlain[c[2]], c[3])
    /\ roundTrip' = IF roundTrip = RoundTrip("assigned", c[1], c[2], c[3])
                    THEN RoundTrip("revoked", c[1], c[2], c[3]) ELSE Idle
    /\ UNCHANGED <<stdVars, now, extVars>>
IdxGrant ==
  \E c \in Untimed(DirectCalls) :
    /\ grantPermissionDirect(c[1], c[2], c[3], NoExpiry)
    /\ IdxFits
    /\ roundTrip' = Idle
    /\ UNCHANGED <<stdVars, now, extVars>>
IdxDeny ==
  \E c \in Untimed(DirectCalls) :
    /\ denyPermissionDirect(c[1], c[2], c[3], NoExpiry)
    /\ IdxFits
    /\ roundTrip' = Idle
    /\ UNCHANGED <<stdVars, now, extVars>>

NextIdx == IdxAssign \/ IdxRevoke \/ IdxGrant \/ IdxDeny

SpecIdx == Init /\ [][NextIdx]_vars

(* SpecIdxTime: the precomputed-index strategy with expiry and a clock *)

TimedFits == Len(effectiveRoles') + Len(effectivePermissions') <= MaxTimedRows

TimedAssign ==
  \E c \in RoleCalls :
    /\ assignRoleWithCompute(c[1], c[2], RoleMapPlain[c[2]], c[3], c[4])
    /\ TimedFits
    /\ UNCHANGED <<stdVars, now, roundTrip, extVars>>
TimedRevoke ==
  \E c \in RoleCalls :
    /\ revokeRoleWithCompute(c[1], c[2], RoleMapPlain[c[2]], c[3])
    /\ UNCHANGED <<stdVars, now, roundTrip, extVars>>
TimedGrant ==
  \E c \in DirectCalls :
    /\ grantPermissionDirect(c[1], c[2], c[3], c[4])
    /\ TimedFits
    /\ UNCHANGED <<stdVars, now, roundTrip, extVars>>
TimedDeny ==
  \E c \in DirectCalls :
    /\ denyPermissionDirect(c[1], c[2], c[3], c[4])
    /\ TimedFits
    /\ UNCHANGED <<stdVars, now, roundTrip, extVars>>
TimedTick == Tick /\ UNCHANGED <<stdVars, idxVars, roundTrip, extVars>>
TimedCleanup ==
  /\ cleanupExpiredIndexed
  /\ UNCHANGED <<stdVars, now, roundTrip, extVars>>

NextIdxTime ==
  \/ TimedAssign
  \/ TimedRevoke
  \/ TimedGrant
  \/ TimedDeny
  \/ TimedTick
  \/ TimedCleanup

SpecIdxTime == Init /\ [][NextIdxTime]_vars

(* SpecRoles: role assignment and revocation in both strategies, with expiry *)

RolesFit == Len(roleAssignments') + Len(effectiveRoles') <= MaxRoleRows

RolesAssign ==
  \E c \in RoleCalls :
    /\ assignRole(c[1], c[2], c[3], c[4], NoActor, FALSE)
    /\ UNCHANGED <<idxVars, now, roundTrip, extVars>>
    /\ RolesFit
RolesRevoke ==
  \E c \in RoleCalls :
    /\ revokeRole(c[1], c[2], c[3], NoActor, FALSE)
    /\ UNCHANGED <<idxVars, now, roundTrip, extVars>>
RolesAssignWithCompute ==
  \E c \in RoleCalls :
    /\ assignRoleWithCompute(c[1], c[2], RoleMapPlain[c[2]], c[3], c[4])
    /\ UNCHANGED <<stdVars, now, roundTrip, extVars>>
    /\ RolesFit
RolesRevokeWithCompute ==
  \E c \in RoleCalls :
    /\ revokeRoleWithCompute(c[1], c[2], RoleMapPlain[c[2]], c[3])
    /\ UNCHANGED <<stdVars, now, roundTrip, extVars>>
RolesTick == Tick /\ UNCHANGED <<stdVars, idxVars, roundTrip, extVars>>

NextRoles ==
  \/ RolesAssign \/ RolesRevoke
  \/ RolesAssignWithCompute \/ RolesRevokeWithCompute
  \/ RolesTick

SpecRoles == Init /\ [][NextRoles]_vars

(* SpecBoth: every call goes once to the standard mutation and once to the *)
(* indexed mutation, with the same arguments and RoleMapPlain; no expiry   *)

BothFits == StdFits /\ IdxFits

BothAssign ==
  \E c \in Untimed(RoleCalls) :
    /\ assignRole(c[1], c[2], c[3], NoExpiry, NoActor, FALSE)
    /\ assignRoleWithCompute(c[1], c[2], RoleMapPlain[c[2]], c[3], NoExpiry)
    /\ BothFits
    /\ UNCHANGED <<now, roundTrip, extVars>>
BothRevoke ==
  \E c \in Untimed(RoleCalls) :
    /\ revokeRole(c[1], c[2], c[3], NoActor, FALSE)
    /\ revokeRoleWithCompute(c[1], c[2], RoleMapPlain[c[2]], c[3])
    /\ UNCHANGED <<now, roundTrip, extVars>>
BothGrant ==
  \E c \in Untimed(DirectCalls) :
    /\ grantPermission(c[1], c[2], c[3], NoExpiry, NoReason, NoActor, FALSE)
    /\ grantPermissionDirect(c[1], c[2], c[3], NoExpiry)
    /\ BothFits
    /\ UNCHANGED <<now, roundTrip, extVars>>
BothDeny ==
  \E c \in Untimed(DirectCalls) :
    /\ denyPermission(c[1], c[2], c[3], NoExpiry, NoReason, NoActor, FALSE)
    /\ denyPermissionDirect(c[1], c[2], c[3], NoExpiry)
    /\ BothFits
    /\ UNCHANGED <<now, roundTrip, extVars>>

NextBoth == BothAssign \/ BothRevoke \/ BothGrant \/ BothDeny

SpecBoth == Init /\ [][NextBoth]_vars

----------------------------------------------------------------------------
(* The helper matchesPermissionPattern called on its own *)

MatchResources == {<<"documents">>, <<"settings">>, STAR}
MatchActions == {<<"read">>, <<"write">>, STAR}
\* well-formed permissions, wildcard forms included
MatchPermissions ==
  {buildPermission(r, a) : r \in MatchResources, a \in MatchActions}
\* patterns: the same, the bare "*", and strings parsePermission rejects
MatchPatterns == MatchPermissions \cup {STAR, INVALID, A_B_C}

MatchInput(permission, pattern) ==
  [phase |-> "input", permission |-> permission, pattern |-> pattern,
   result |-> Thrown]

InitMatch ==
  /\ roleAssignments = <<>>
  /\ permissionOverrides = <<>>
  /\ effectiveRoles = <<>>
  /\ effectivePermissions = <<>>
  /\ now = 1
  /\ roundTrip = Idle
  /\ relationships = <<>>
  /\ traversal = NoTraversal
  /\ auditLog = <<>>
  /\ effectiveRelationships = <<>>
  /\ userAttributes = <<>>
  /\ call \in {MatchInput(p, q) : p \in MatchPermissions, q \in MatchPatterns}

MatchCall ==
  /\ call.phase = "input"
  /\ call' = [call EXCEPT
                !.phase = "returned",
                !.result = matchesPermissionPattern(call.permission,
                                                    call.pattern)]
  /\ UNCHANGED <<stdVars, idxVars, now, roundTrip, newVars,
                 relationships, traversal, auditLog>>

NextMatch == MatchCall

SpecMatch == InitMatch /\ [][NextMatch]_vars

----------------------------------------------------------------------------
(* Vocabulary of the claims *)

\* a query scope as the objectType / objectId arguments of the fast queries
ObjectType(scope) == IF scope = NoScope THEN <<>> ELSE <<scope[1]>>
ObjectId(scope) == IF scope = NoScope THEN <<>> ELSE <<scope[2]>>

\* the pattern, as a string, matches the permission: "*", or two parts each
\* of which is "*" or equal to the permission's part
PatternCovers(permission, pattern) ==
  \/ pattern = STAR
  \/ /\ Len(Split(permission)) = 2
     /\ Len(Split(pattern)) = 2
     /\ \A k \in 1..2 : Split(pattern)[k] = STAR
                        \/ Split(pattern)[k] = Split(permission)[k]

\* the stored scope covers the requested one: absent, or present and equal
ScopeCovers(scope, requested) ==
  scope = NoScope \/ (requested # NoScope /\ scope = requested)

Live(expiresAt) == expiresAt = NoExpiry \/ expiresAt >= now

\* user u has a live override of the given effect that covers (p, s)
OverrideApplies(effect, u, p, s) ==
  \E i \in 1..Len(permissionOverrides) :
    /\ permissionOverrides[i].userId = u
    /\ permissionOverrides[i].effect = effect
    /\ Live(permissionOverrides[i].expiresAt)
    /\ PatternCovers(p, permissionOverrides[i].permission)
    /\ ScopeCovers(permissionOverrides[i].scope, s)

\* user u holds, live and covering s, the role r, and map[r] covers p
RoleGrants(u, r, p, s, map) ==
  /\ r \in DOMAIN map
  /\ \E j \in 1..Len(map[r]) : PatternCovers(p, map[r][j])
  /\ \E i \in 1..Len(roleAssignments) :
       /\ roleAssignments[i].userId = u
       /\ roleAssignments[i].role = r
       /\ Live(roleAssignments[i].expiresAt)
       /\ ScopeCovers(roleAssignments[i].scope, s)

----------------------------------------------------------------------------
(* C1 *)

\* C1: in every reachable state, if user u has a non-expired deny override
\* whose pattern matches p and whose scope matches s, checkPermission(u, p, s,
\* rolePermissions) returns allowed = false, whatever else u has.
C1_DenyPrecedence ==
  \A u \in Users, p \in QueryPermissions, s \in QueryScopes, m \in RoleMaps :
    OverrideApplies("deny", u, p, s)
      => LET r == checkPermission(u, p, s, m)
         IN ~r.threw /\ r.allowed = FALSE

----------------------------------------------------------------------------
(* C9 *)

\* C9: for every permission string (well-formed, malformed or the bare "*")
\* and every stored state, checkPermission and checkPermissionFast return a
\* normal value and never raise.
C9_NeverRaises ==
  \A u \in Users, p \in QueryPermissions, s \in QueryScopes :
    /\ \A m \in RoleMaps : ~checkPermission(u, p, s, m).threw
    /\ ~checkPermissionFast(u, p, ObjectType(s), ObjectId(s)).threw

----------------------------------------------------------------------------
(* C10 *)

\* C10: when no override of u matches (p, s), checkPermission returns
\* allowed = true with matchedRole = r exactly when u holds a non-expired
\* assignment of a role r whose scope matches s and whose permission list
\* contains a pattern matching p, and allowed = false otherwise; when an allow
\* override matches and no deny override does, it returns allowed = true with
\* that override reported.
C10_StandardRolePath ==
  \A u \in Users, p \in QueryPermissions, s \in QueryScopes, m \in RoleMaps :
    LET r == checkPermission(u, p, s, m)
        overridden == OverrideApplies("deny", u, p, s)
                      \/ OverrideApplies("allow", u, p, s)
    IN /\ ~overridden =>
            /\ ~r.threw
            /\ r.allowed = (\E role \in Roles : RoleGrants(u, role, p, s, m))
            /\ r.allowed => /\ RoleGrants(u, r.matchedRole, p, s, m)
                            /\ r.matchedOverride = NoOverride
       /\ (OverrideApplies("allow", u, p, s)
           /\ ~OverrideApplies("deny", u, p, s)) =>
            /\ ~r.threw
            /\ r.allowed
            /\ r.matchedOverride \in 1..Len(permissionOverrides)
            /\ permissionOverrides[r.matchedOverride].userId = u
            /\ permissionOverrides[r.matchedOverride].effect = "allow"
            /\ PatternCovers(p, permissionOverrides[r.matchedOverride].permission)
            /\ ScopeCovers(permissionOverrides[r.matchedOverride].scope, s)

----------------------------------------------------------------------------
(* C8 *)

\* the rows of a table that are not scoped to S, in table order
RowsOutside(table, scoped) ==
  LET keep == Positions([n \in 1..Len(table) |-> ~scoped[n]], 1)
  IN [k \in 1..Len(keep) |-> table[keep[k]]]

ScopedTo(table, S) == [n \in 1..Len(table) |-> table[n].scope = S]
KeyedTo(table, S) == [n \in 1..Len(table) |-> table[n].scopeKey = scopeKeyOf(S)]

\* C8: role assignments, overrides and effective-permission rows scoped to S
\* never change the result of a permission check whose scope is absent or is
\* some S' # S: every such check answers in a state as it answers in the
\* state without the rows scoped to S, so two states that differ only in rows
\* scoped to S answer alike.
C8_ScopeIsolation ==
  \A S \in StoredScopes \ {NoScope} :
    \A u \in Users, p \in QueryPermissions, q \in QueryScopes \ {S} :
      /\ \A m \in RoleMaps :
           LET with == checkPermission(u, p, q, m)
               without ==
                 checkPermissionOn(
                   RowsOutside(permissionOverrides,
                               ScopedTo(permissionOverrides, S)),
                   RowsOutside(roleAssignments, ScopedTo(roleAssignments, S)),
                   u, p, q, m)
           IN /\ with.threw = without.threw
              /\ with.allowed = without.allowed
              /\ with.matchedRole = without.matchedRole
      /\ checkPermissionFast(u, p, ObjectType(q), ObjectId(q))
           = checkPermissionFastOn(
               RowsOutside(effectivePermissions,
                           KeyedTo(effectivePermissions, S)),
               u, p, ObjectType(q), ObjectId(q))

----------------------------------------------------------------------------
(* C4 *)

\* C4: a row on which grantPermissionDirect or denyPermissionDirect was
\* applied still exists, with its effect, after every role that sourced it has
\* been revoked: no step that removes a role removes a row whose directGrant
\* or directDeny is set, or changes its effect.
C4_DirectRowsSurvive ==
  [][\A i \in 1..Len(effectivePermissions) :
       LET row == effectivePermissions[i]
       IN (/\ row.directGrant \/ row.directDeny
           /\ Len(effectiveRoles') < Len(effectiveRoles)) =>
            \E j \in 1..Len(effectivePermissions') :
              /\ effectivePermissions'[j].userId = row.userId
              /\ effectivePermissions'[j].permission = row.permission
              /\ effectivePermissions'[j].scopeKey = row.scopeKey
              /\ effectivePermissions'[j].effect = row.effect]_vars

----------------------------------------------------------------------------
(* C6 *)

\* C6: with no expiry involved, after the same sequence of role assignments,
\* revocations, direct grants and direct denies applied through each
\* strategy, checkPermission and checkPermissionFast give the same allow/deny
\* answer for every user, well-formed permission and scope.
C6_StrategiesAgree ==
  \A u \in Users, s \in QueryScopes :
    \A p \in {q \in QueryPermissions : WellFormed(q)} :
      LET standard == checkPermission(u, p, s, RoleMapPlain)
          indexed == checkPermissionFast(u, p, ObjectType(s), ObjectId(s))
      IN /\ ~standard.threw
         /\ ~indexed.threw
         /\ standard.allowed = indexed.value

----------------------------------------------------------------------------
(* C2 *)

\* the candidate scopeKeys of a check: [type:id, global], only global when no
\* scope is given
CandidateKeys(s) ==
  IF s = NoScope THEN {GLOBAL_SCOPE_KEY}
  ELSE {<<s[1], COLON, s[2]>>, GLOBAL_SCOPE_KEY}

\* the candidate patterns [p, resource:*, *:action, *:*, *]; resource and
\* action exist when p has exactly two parts
ListedCandidates(p) ==
  {p, STAR_STAR, STAR}
    \cup (IF Len(Split(p)) = 2
          THEN {Split(p)[1] \o <<COLON>> \o STAR,
                STAR \o <<COLON>> \o Split(p)[2]}
          ELSE {})

\* the candidates the fast check really scans: the listed ones for a p with
\* two parts, "*" and "*:*" for the bare "*", and p alone for any other string
ScannedCandidates(p) ==
  IF p = STAR THEN {STAR, STAR_STAR}
  ELSE IF Len(Split(p)) = 2 THEN ListedCandidates(p)
  ELSE {p}

\* among the non-expired rows of u keyed by a candidate pattern and a
\* candidate scopeKey, none denies and at least one allows
NoDenySomeAllow(u, patterns, s) ==
  LET live == {i \in 1..Len(effectivePermissions) :
                 /\ effectivePermissions[i].userId = u
                 /\ effectivePermissions[i].permission \in patterns
                 /\ effectivePermissions[i].scopeKey \in CandidateKeys(s)
                 /\ Live(effectivePermissions[i].expiresAt)}
  IN /\ \A i \in live : effectivePermissions[i].effect # "deny"
     /\ \E i \in live : effectivePermissions[i].effect = "allow"

\* C2 (as stated): checkPermissionFast(u, p, scope) returns true iff, among
\* the rows of u keyed by a candidate pattern in [p, resource:*, *:action,
\* *:*, *] and a candidate scopeKey, no non-expired row denies and at least
\* one non-expired row allows, for every permission string p.
C2_ListedCandidates ==
  \A u \in Users, p \in QueryPermissions, s \in QueryScopes :
    checkPermissionFast(u, p, ObjectType(s), ObjectId(s))
      = Returned(NoDenySomeAllow(u, ListedCandidates(p), s))

\* C2 (amended): the same equivalence with the candidate patterns
\* [p, resource:*, *:action, *:*, *] for a p of the form resource:action,
\* ["*", "*:*"] for the bare "*", and p alone for any other string; a global
\* or wildcard deny row defeats an exact or scope-specific allow row whatever
\* the scan order.
C2_ScannedCandidates ==
  \A u \in Users, p \in QueryPermissions, s \in QueryScopes :
    checkPermissionFast(u, p, ObjectType(s), ObjectId(s))
      = Returned(NoDenySomeAllow(u, ScannedCandidates(p), s))

\* alice holds a live exact allow row scoped to org:acme, scanned first, and a
\* live global "*" deny row, and the check of documents:read in org:acme
\* answers false
C2_Witness ==
  /\ \E i, j \in 1..Len(effectivePermissions) :
       /\ effectivePermissions[i].userId = "alice"
       /\ effectivePermissions[i].permission = DOCS_READ
       /\ effectivePermissions[i].scopeKey = scopeKeyOf(ORG_ACME)
       /\ effectivePermissions[i].effect = "allow"
       /\ Live(effectivePermissions[i].expiresAt)
       /\ effectivePermissions[j].userId = "alice"
       /\ effectivePermissions[j].permission = STAR
       /\ effectivePermissions[j].scopeKey = GLOBAL_SCOPE_KEY
       /\ effectivePermissions[j].effect = "deny"
       /\ Live(effectivePermissions[j].expiresAt)
  /\ checkPermissionFast("alice", DOCS_READ, <<"org">>, <<"acme">>)
       = Returned(FALSE)

----------------------------------------------------------------------------
(* C3 *)

\* C3: for a user with no rows in the derived indexes, assignRoleWithCompute
\* (u, r, P, s) followed by revokeRoleWithCompute(u, r, P, s) leaves no
\* effectiveRoles row and no effectivePermissions row for u, so
\* getUserPermissionsFast(u) is empty and checkPermissionFast(u, p) is false
\* for every p in P.
C3_IndexRoundTrip ==
  roundTrip.phase = "revoked" =>
    LET u == roundTrip.userId
        P == RoleMapPlain[roundTrip.role]
    IN /\ NoIndexRows(u)
       /\ \A key \in {<<>>, GLOBAL_SCOPE_KEY, scopeKeyOf(ORG_ACME)} :
            getUserPermissionsFast(u, key) = <<>>
       /\ \A k \in 1..Len(P), q \in QueryScopes :
            checkPermissionFast(u, P[k], ObjectType(q), ObjectId(q))
              = Returned(FALSE)

\* the revocation of a round trip has just run
C3_Witness == roundTrip.phase = "revoked"

----------------------------------------------------------------------------
(* C5 *)

\* the roles present in effectiveRoles for the user and scopeKey whose
\* permission list contains the permission
SourcingRoles(u, permission, scopeKey) ==
  {r \in Roles :
     /\ \E i \in 1..Len(effectiveRoles) :
          /\ effectiveRoles[i].userId = u
          /\ effectiveRoles[i].role = r
          /\ effectiveRoles[i].scopeKey = scopeKey
     /\ \E k \in 1..Len(RoleMapPlain[r]) : RoleMapPlain[r][k] = permission}

\* C5: after any sequence of assignRoleWithCompute, revokeRoleWithCompute,
\* grantPermissionDirect and denyPermissionDirect calls in which each role is
\* always passed the same permission list, the sources of every
\* EffectivePermission row are exactly the roles present in effectiveRoles for
\* its user and scopeKey whose list contains its permission, without
\* duplicates, and a (user, permission, scopeKey) some present role sources
\* has its row.
C5_SourcesBookkeeping ==
  /\ \A i \in 1..Len(effectivePermissions) :
       LET row == effectivePermissions[i]
           expected == SourcingRoles(row.userId, row.permission, row.scopeKey)
       IN /\ {row.sources[k] : k \in 1..Len(row.sources)} = expected
          /\ Len(row.sources) = Cardinality(expected)
  /\ \A u \in Users, sk \in {scopeKeyOf(s) : s \in StoredScopes} :
       \A permission \in {DOCS_READ, DOCS_STAR} :
         SourcingRoles(u, permission, sk) # {} =>
           Len(permissionRows(effectivePermissions, u, permission, sk)) = 1

\* a row sourced by two roles at once
C5_Witness ==
  \E i \in 1..Len(effectivePermissions) :
    /\ Len(effectivePermissions[i].sources) = 2
    /\ SourcingRoles(effectivePermissions[i].userId,
                     effectivePermissions[i].permission,
                     effectivePermissions[i].scopeKey) = Roles

----------------------------------------------------------------------------
(* C7 *)

\* C7: hasRole(u, r, q) is true iff u has a non-expired assignment of r whose
\* scope is absent, or whose scope equals q with q present; a scoped
\* assignment never satisfies a no-scope query nor a query for a different
\* scope. hasRoleFast obeys the same rule over effectiveRoles rows (scopeKey
\* global or the exact type:id).
C7_RoleScopeGenerality ==
  \A u \in Users, r \in Roles, q \in QueryScopes :
    /\ hasRole(u, r, q) <=>
         \E i \in 1..Len(roleAssignments) :
           /\ roleAssignments[i].userId = u
           /\ roleAssignments[i].role = r
           /\ Live(roleAssignments[i].expiresAt)
           /\ \/ roleAssignments[i].scope = NoScope
              \/ q # NoScope /\ roleAssignments[i].scope = q
    /\ hasRoleFast(u, r, ObjectType(q), ObjectId(q)) =
         Returned(\E i \in 1..Len(effectiveRoles) :
                    /\ effectiveRoles[i].userId = u
                    /\ effectiveRoles[i].role = r
                    /\ Live(effectiveRoles[i].expiresAt)
                    /\ \/ effectiveRoles[i].scopeKey = GLOBAL_SCOPE_KEY
                       \/ /\ q # NoScope
                          /\ effectiveRoles[i].scopeKey
                               = <<q[1], COLON, q[2]>>)

\* alice holds admin live and scoped to org:acme in both tables: the role
\* answers for org:acme and neither for no scope nor for org:beta
C7_Witness ==
  /\ \E i \in 1..Len(roleAssignments) :
       roleAssignments[i] = AssignmentRow("alice", "admin", ORG_ACME, NoExpiry)
  /\ \E i \in 1..Len(effectiveRoles) :
       effectiveRoles[i]
         = EffectiveRoleRow("alice", "admin", scopeKeyOf(ORG_ACME), NoExpiry)
  /\ hasRole("alice", "admin", ORG_ACME)
  /\ ~hasRole("alice", "admin", NoScope)
  /\ ~hasRole("alice", "admin", ORG_BETA)
  /\ hasRoleFast("alice", "admin", <<"org">>, <<"acme">>) = Returned(TRUE)
  /\ hasRoleFast("alice", "admin", <<>>, <<>>) = Returned(FALSE)
  /\ hasRoleFast("alice", "admin", <<"org">>, <<"betaco">>) = Returned(FALSE)

----------------------------------------------------------------------------
(* C11 *)

\* C11: for every well-formed permission "res:act" and pattern q,
\* matchesPermissionPattern(permission, q) is true iff q is "*", or q is
\* "qr:qa" with (qr = "*" or qr = res) and (qa = "*" or qa = act); it answers
\* (true or false) for every such q; "documents:*" matches exactly the
\* permissions on resource documents, "*:read" exactly those with action
\* read, and "*" and "*:*" match everything.
C11_WildcardMatching ==
  call.phase = "returned" =>
    LET res == Split(call.permission)[1]
        act == Split(call.permission)[2]
        q == call.pattern
        twoParts == Len(Split(q)) = 2
        matches == call.result = Returned(TRUE)
    IN /\ matches <=>
            \/ q = STAR
            \/ /\ twoParts
               /\ Split(q)[1] = STAR \/ Split(q)[1] = res
               /\ Split(q)[2] = STAR \/ Split(q)[2] = act
       /\ (q = STAR \/ twoParts) => ~call.result.threw
       /\ q = DOCS_STAR => (matches <=> res = <<"documents">>)
       /\ q = STAR_READ => (matches <=> act = <<"read">>)
       /\ q \in {STAR, STAR_STAR} => matches

\* "documents:read" was matched against "documents:*" and "settings:read"
\* was not: the two cases are told apart by the pattern's resource
C11_Witness ==
  /\ call.phase = "returned"
  /\ call.pattern = DOCS_STAR
  /\ call.permission = buildPermission(<<"settings">>, <<"read">>)
  /\ call.result = Returned(FALSE)
  /\ matchesPermissionPattern(DOCS_READ, DOCS_STAR) = Returned(TRUE)

----------------------------------------------------------------------------
(* C12 *)

\* user u holds, unexpired and under a candidate scopeKey of s, a role whose
\* permission list contains a candidate pattern of p
LiveSourcingRole(u, p, s) ==
  \E i \in 1..Len(effectiveRoles) :
    /\ effectiveRoles[i].userId = u
    /\ effectiveRoles[i].scopeKey \in CandidateKeys(s)
    /\ Live(effectiveRoles[i].expiresAt)
    /\ \E k \in 1..Len(RoleMapPlain[effectiveRoles[i].role]) :
         RoleMapPlain[effectiveRoles[i].role][k] \in ScannedCandidates(p)

\* user u holds an unexpired direct grant under a candidate key and pattern
LiveDirectGrant(u, p, s) ==
  \E i \in 1..Len(effectivePermissions) :
    /\ effectivePermissions[i].userId = u
    /\ effectivePermissions[i].permission \in ScannedCandidates(p)
    /\ effectivePermissions[i].scopeKey \in CandidateKeys(s)
    /\ effectivePermissions[i].directGrant
    /\ Live(effectivePermissions[i].expiresAt)

\* C12: once every role assignment that sourced a permission has passed its
\* expiresAt and no unexpired direct grant exists, checkPermissionFast
\* returns false for that permission, whatever assign/revoke calls happened
\* before.
C12_ExpiredRolesAbsent ==
  \A u \in Users, p \in QueryPermissions, s \in QueryScopes :
    (~LiveSourcingRole(u, p, s) /\ ~LiveDirectGrant(u, p, s))
      => checkPermissionFast(u, p, ObjectType(s), ObjectId(s))
           = Returned(FALSE)

----------------------------------------------------------------------------
(* C13 *)

\* the rows grantPermissionDirect wrote for u that a check of (p, s) scans
\* and that still grant
DirectGrantRows(u, p, s) ==
  {i \in 1..Len(effectivePermissions) :
     /\ effectivePermissions[i].userId = u
     /\ effectivePermissions[i].permission \in ScannedCandidates(p)
     /\ effectivePermissions[i].scopeKey \in CandidateKeys(s)
     /\ effectivePermissions[i].directGrant
     /\ effectivePermissions[i].effect = "allow"}

\* the unexpired rows of the given effect that a check of (p, s) scans
LiveRows(effect, u, p, s) ==
  {i \in 1..Len(effectivePermissions) :
     /\ effectivePermissions[i].userId = u
     /\ effectivePermissions[i].permission \in ScannedCandidates(p)
     /\ effectivePermissions[i].scopeKey \in CandidateKeys(s)
     /\ effectivePermissions[i].effect = effect
     /\ Live(effectivePermissions[i].expiresAt)}

\* C13: a row written by grantPermissionDirect with expiresAt earlier than
\* the current time is never honoured by checkPermissionFast (the check is
\* false absent other grants); one with expiresAt later than the current time
\* is honoured (absent a deny); this holds at every time, cleanup or not, so
\* a grant honoured now stops being honoured once the clock passes expiresAt.
C13_DirectGrantExpiry ==
  \A u \in Users, p \in QueryPermissions, s \in QueryScopes :
    LET direct == DirectGrantRows(u, p, s)
        result == checkPermissionFast(u, p, ObjectType(s), ObjectId(s))
    IN /\ (/\ direct # {}
           /\ \A i \in direct :
                /\ effectivePermissions[i].expiresAt # NoExpiry
                /\ effectivePermissions[i].expiresAt < now
           /\ LiveRows("allow", u, p, s) \subseteq direct)
          => result = Returned(FALSE)
       /\ (/\ \E i \in direct :
                /\ effectivePermissions[i].expiresAt # NoExpiry
                /\ effectivePermissions[i].expiresAt > now
           /\ LiveRows("deny", u, p, s) = {})
          => result = Returned(TRUE)

\* the clock has passed the expiresAt of alice's only grant, which is still
\* stored, and the check answers false
C13_Witness ==
  /\ now = 3
  /\ \E i \in 1..Len(effectivePermissions) :
       /\ effectivePermissions[i].userId = "alice"
       /\ effectivePermissions[i].permission = DOCS_READ
       /\ effectivePermissions[i].scopeKey = GLOBAL_SCOPE_KEY
       /\ effectivePermissions[i].directGrant
       /\ effectivePermissions[i].effect = "allow"
       /\ effectivePermissions[i].expiresAt = 2
  /\ Len(effectivePermissions) = 1
  /\ checkPermissionFast("alice", DOCS_READ, <<>>, <<>>) = Returned(FALSE)

\* the same grant while its expiresAt is still ahead: the check answers true
C13_WitnessHonoured ==
  /\ now = 1
  /\ Len(effectivePermissions) = 1
  /\ effectivePermissions[1].directGrant
  /\ effectivePermissions[1].expiresAt = 2
  /\ checkPermissionFast(effectivePermissions[1].userId,
                         effectivePermissions[1].permission, <<>>, <<>>)
       = Returned(TRUE)

----------------------------------------------------------------------------
(* rebac.ts: relationship tuples and checkRelationWithTraversal *)

\* most tuples stored at once
MaxTuples == 3
\* largest maxDepth argument passed
MaxDepthArg == 3

\* `args.maxDepth ?? 5`
DEFAULT_MAX_DEPTH == 5
\* maxDepth left out of the call
NoMaxDepth == -1
\* traversalRules left out of the call
NoRules == [present |-> FALSE, entries |-> <<>>]

RelationshipRow(subjectType, subjectId, relation, objectType, objectId) == [subjectType |-> subjectType, subjectId |-> subjectId, relation |-> relation, objectType |-> objectType, objectId |-> objectId]

\* fault: the by_subject_relation_object lookup finds nothing
uniqueRelationNone(rows, subjectType, subjectId, relation, objectType, objectId) == 0

\* the by_subject_relation_object lookup: the position of the tuple, or 0
\* (addRelation never stores a tuple twice, so .unique() has at most one hit)
uniqueRelation(rows, subjectType, subjectId, relation, objectType, objectId) ==
  FindFirst([n \in 1..Len(rows) |->
               rows[n] = RelationshipRow(subjectType, subjectId, relation,
                                         objectType, objectId)])

addRelation(subjectType, subjectId, relation, objectType, objectId) ==
  IF uniqueRelation(relationships, subjectType, subjectId, relation,
                    objectType, objectId) # 0
  THEN UNCHANGED relationships
  ELSE relationships' =
         Append(relationships,
                RelationshipRow(subjectType, subjectId, relation,
                                objectType, objectId))

removeRelation(subjectType, subjectId, relation, objectType, objectId) ==
  LET existing == uniqueRelation(relationships, subjectType, subjectId,
                                 relation, objectType, objectId)
  IN IF existing # 0
     THEN relationships' =
            [n \in 1..(Len(relationships) - 1) |->
               IF n < existing THEN relationships[n]
               ELSE relationships[n + 1]]
     ELSE UNCHANGED relationships

\* fault: the edge is written from the object to the subject
pathEdgeReversed(subjectType, subjectId, relation, objectType, objectId) == <<objectType, COLON, objectId, " -[", relation, "]-> ", subjectType, COLON, subjectId>>

\* the id addRelation hands back: the stored tuple's, or the new row's
addRelationResult(subjectType, subjectId, relation, objectType, objectId) ==
  LET existing == uniqueRelation(relationships, subjectType, subjectId,
                                 relation, objectType, objectId)
  IN Returned(IF existing # 0 THEN existing ELSE Len(relationships) + 1)

removeRelationResult(subjectType, subjectId, relation, objectType, objectId) ==
  Returned(uniqueRelation(relationships, subjectType, subjectId, relation,
                          objectType, objectId) # 0)

hasDirectRelation(subjectType, subjectId, relation, objectType, objectId) ==
  uniqueRelation(relationships, subjectType, subjectId, relation, objectType,
                 objectId) # 0

\* `${st}:${si} -[${r}]-> ${ot}:${oi}`
pathEdge(subjectType, subjectId, relation, objectType, objectId) == <<subjectType, COLON, subjectId, " -[", relation, "]-> ", objectType, COLON, objectId>>

\* `${current.objectType}:${current.objectId}:${current.relation}`
visitKey(objectType, objectId, relation) == <<objectType, COLON, objectId, COLON, relation>>

\* `${objectType}:${relation}`
ruleKey(objectType, relation) == <<objectType, COLON, relation>>

\* `rules[key] || []`
rulesAt(rules, key) ==
  LET hit == FindFirst([n \in 1..Len(rules.entries) |->
                          rules.entries[n].key = key])
  IN IF hit = 0 THEN <<>> ELSE rules.entries[hit].rules

QueueItem(objectType, objectId, relation, depth, path) == [objectType |-> objectType, objectId |-> objectId, relation |-> relation, depth |-> depth, path |-> path]

\* fault: the visited set is never consulted
visitedHasNever(visited, key) == FALSE

\* `visited.has(visitKey)`
visitedHas(visited, key) == key \in visited

\* fault: the parents are not filtered by rule.through
pushParentsAnyType(current, rule) ==
  LET parents == SelectSeq(relationships, LAMBDA r :
                   /\ r.objectType = current.objectType
                   /\ r.objectId = current.objectId
                   /\ r.relation = rule.via)
  IN [n \in 1..Len(parents) |->
        [objectType |-> parents[n].subjectType,
         objectId |-> parents[n].subjectId,
         relation |-> rule.inherit,
         depth |-> current.depth + 1,
         path |-> Append(current.path,
                         <<parents[n].subjectType, COLON, parents[n].subjectId,
                           " -[", rule.via, "]-> ", current.objectType, COLON,
                           current.objectId>>)]]

\* the by_object_relation rows of the current object for rule.via, filtered to
\* subjectType = rule.through, each turned into the queue item pushed for it
pushParents(current, rule) ==
  LET parents == SelectSeq(relationships, LAMBDA r :
                   /\ r.objectType = current.objectType
                   /\ r.objectId = current.objectId
                   /\ r.relation = rule.via
                   /\ r.subjectType = rule.through)
  IN [n \in 1..Len(parents) |->
        QueueItem(parents[n].subjectType, parents[n].subjectId, rule.inherit,
                  current.depth + 1,
                  Append(current.path,
                         pathEdge(parents[n].subjectType, parents[n].subjectId,
                                  rule.via, current.objectType,
                                  current.objectId)))]

\* `for (const rule of currentRules)`
RECURSIVE pushRules(_, _, _)
pushRules(current, currentRules, k) ==
  IF k > Len(currentRules) THEN <<>>
  ELSE pushParents(current, currentRules[k])
         \o pushRules(current, currentRules, k + 1)

\* the call's frame: arguments, locals and, once phase = "done", the result
TraversalFrame(phase, subjectType, subjectId, relation, objectType, objectId, rules, maxDepth, queue, allowed, path) == [phase |-> phase, subjectType |-> subjectType, subjectId |-> subjectId, relation |-> relation, objectType |-> objectType, objectId |-> objectId, rules |-> rules, maxDepth |-> maxDepth, queue |-> queue, visited |-> {}, expanded |-> <<>>, allowed |-> allowed, path |-> path]

\* the handler up to the first evaluation of the loop condition
checkRelationWithTraversalEnter(subjectType, subjectId, relation, objectType, objectId, traversalRules, maxDepthArg) ==
  LET maxDepth == IF maxDepthArg = NoMaxDepth THEN DEFAULT_MAX_DEPTH
                  ELSE maxDepthArg
      direct == uniqueRelation(relationships, subjectType, subjectId,
                               relation, objectType, objectId)
  IN IF direct # 0
     THEN TraversalFrame("done", subjectType, subjectId, relation,
                         objectType, objectId, traversalRules, maxDepth, <<>>,
                         TRUE,
                         <<pathEdge(subjectType, subjectId, relation,
                                    objectType, objectId)>>)
     ELSE IF ~traversalRules.present
     THEN TraversalFrame("done", subjectType, subjectId, relation,
                         objectType, objectId, traversalRules, maxDepth, <<>>,
                         FALSE, <<>>)
     ELSE TraversalFrame("running", subjectType, subjectId, relation,
                         objectType, objectId, traversalRules, maxDepth,
                         <<QueueItem(objectType, objectId, relation, 0, <<>>)>>,
                         FALSE, <<>>)

\* one pass through the body of `while (queue.length > 0)`
checkRelationWithTraversalLoop(frame) ==
  LET current == Head(frame.queue)
      rest == Tail(frame.queue)
      key == visitKey(current.objectType, current.objectId, current.relation)
      hasRelation == uniqueRelation(relationships, frame.subjectType,
                                    frame.subjectId, current.relation,
                                    current.objectType, current.objectId)
      currentRules == rulesAt(frame.rules,
                              ruleKey(current.objectType, current.relation))
  IN IF current.depth >= frame.maxDepth
     THEN [frame EXCEPT !.queue = rest]
     ELSE IF visitedHas(frame.visited, key)
     THEN [frame EXCEPT !.queue = rest]
     ELSE IF hasRelation # 0
     THEN [frame EXCEPT
             !.phase = "done",
             !.queue = rest,
             !.visited = @ \cup {key},
             !.expanded = Append(@, key),
             !.allowed = TRUE,
             !.path = Append(current.path,
                             pathEdge(frame.subjectType, frame.subjectId,
                                      current.relation, current.objectType,
                                      current.objectId))]
     ELSE [frame EXCEPT
             !.queue = rest \o pushRules(current, currentRules, 1),
             !.visited = @ \cup {key},
             !.expanded = Append(@, key)]

\* the loop condition fails: "No relationship path found"
checkRelationWithTraversalExit(frame) == [frame EXCEPT !.phase = "done", !.allowed = FALSE, !.path = <<>>]

(* relationship graphs and traversals *)

SUBJECT == <<"user", "alice">>
NODE_A == <<"node", "a">>
NODE_B == <<"node", "b">>
NODE_C == <<"node", "c">>
FOLDER_F == <<"folder", "f">>

\* the tuples that addRelation and removeRelation are called with
TupleArgs ==
  { <<NODE_B, "m", NODE_A>>, <<NODE_A, "m", NODE_B>>, <<NODE_C, "m", NODE_B>>,
    <<FOLDER_F, "m", NODE_A>>,
    <<SUBJECT, "viewer", NODE_A>>, <<SUBJECT, "viewer", NODE_B>>,
    <<SUBJECT, "viewer", NODE_C>>, <<SUBJECT, "viewer", FOLDER_F>>,
    <<SUBJECT, "m", NODE_B>> }

TraversalRule(through, via, inherit) == [through |-> through, via |-> via, inherit |-> inherit]

RuleSet(key, rules) == [present |-> TRUE, entries |-> <<[key |-> key, rules |-> rules]>>]

\* { "node:viewer": [{ through: "node", via: "m", inherit: "viewer" }] }
RULES_NODE == RuleSet(ruleKey("node", "viewer"), <<TraversalRule("node", "m", "viewer")>>)
\* { "node:viewer": [{ through: "folder", via: "m", inherit: "viewer" },
\*                    { through: "node", via: "m", inherit: "m" }] }
RULES_MIXED == RuleSet(ruleKey("node", "viewer"), <<TraversalRule("folder", "m", "viewer"), TraversalRule("node", "m", "m")>>)
\* { "node:m": [{ through: "node", via: "m", inherit: "m" }] }
RULES_M == RuleSet(ruleKey("node", "m"), <<TraversalRule("node", "m", "m")>>)

RuleArgs == {NoRules, RULES_NODE, RULES_MIXED, RULES_M}
RelationArgs == {"viewer", "m"}
MaxDepthArgs == {NoMaxDepth} \cup 0..MaxDepthArg

TravAdd ==
  /\ traversal = NoTraversal
  /\ \E t \in TupleArgs :
       /\ addRelation(t[1][1], t[1][2], t[2], t[3][1], t[3][2])
       /\ Len(relationships') <= MaxTuples
  /\ UNCHANGED <<stdVars, idxVars, now, roundTrip, newVars, call, traversal, auditLog>>

TravRemove ==
  /\ traversal = NoTraversal
  /\ \E t \in TupleArgs :
       removeRelation(t[1][1], t[1][2], t[2], t[3][1], t[3][2])
  /\ UNCHANGED <<stdVars, idxVars, now, roundTrip, newVars, call, traversal, auditLog>>

TravEnter ==
  /\ traversal = NoTraversal
  /\ \E relation \in RelationArgs, rules \in RuleArgs, depth \in MaxDepthArgs :
       traversal' = checkRelationWithTraversalEnter(SUBJECT[1], SUBJECT[2],
                      relation, NODE_A[1], NODE_A[2], rules, depth)
  /\ UNCHANGED <<stdVars, idxVars, now, roundTrip, newVars, call, relationships,
                 auditLog>>

TravLoop ==
  /\ traversal.phase = "running"
  /\ traversal.queue # <<>>
  /\ traversal' = checkRelationWithTraversalLoop(traversal)
  /\ UNCHANGED <<stdVars, idxVars, now, roundTrip, newVars, call, relationships,
                 auditLog>>

TravExit ==
  /\ traversal.phase = "running"
  /\ traversal.queue = <<>>
  /\ traversal' = checkRelationWithTraversalExit(traversal)
  /\ UNCHANGED <<stdVars, idxVars, now, roundTrip, newVars, call, relationships,
                 auditLog>>

\* the caller has the result; the next call may follow
TravReturn ==
  /\ traversal.phase = "done"
  /\ traversal' = NoTraversal
  /\ UNCHANGED <<stdVars, idxVars, now, roundTrip, newVars, call, relationships,
                 auditLog>>

NextTrav ==
  TravAdd \/ TravRemove \/ TravEnter \/ TravLoop \/ TravExit \/ TravReturn

SpecTrav == Init /\ [][NextTrav]_vars

\* a query handler runs to completion once started
SpecTravFair == SpecTrav /\ WF_vars(TravLoop) /\ WF_vars(TravExit)

----------------------------------------------------------------------------
(* C14 *)

Stored(subject, relation, object) ==
  \E n \in 1..Len(relationships) :
    relationships[n] = RelationshipRow(subject[1], subject[2], relation,
                                       object[1], object[2])

\* the stored tuples are exactly A --m--> B and B --m--> A
CycleOnly ==
  /\ Len(relationships) = 2
  /\ Stored(NODE_A, "m", NODE_B)
  /\ Stored(NODE_B, "m", NODE_A)

ExpandedOnce ==
  traversal.phase # "none" =>
    \A i, j \in 1..Len(traversal.expanded) :
      traversal.expanded[i] = traversal.expanded[j] => i = j

CycleDenied ==
  (traversal.phase = "done" /\ CycleOnly /\ traversal.rules = RULES_M)
    => ~traversal.allowed

\* C14: checkRelationWithTraversal terminates on every stored tuple set
\* (cyclic ones included), rule set and maxDepth >= 0: a call that entered the
\* loop reaches its return; it expands each (objectType, objectId, relation)
\* at most once; and on the graph A --m--> B, B --m--> A with a rule over m
\* and no tuple from the subject it returns allowed = false.
C14_TraversalTerminates ==
  /\ [](ExpandedOnce /\ CycleDenied)
  /\ (traversal.phase = "running") ~> (traversal.phase = "done")

\* the walk went round the cycle: both nodes were expanded once, the second
\* arrival at A was skipped, and the call returned allowed = false
C14_Witness ==
  /\ traversal.phase = "done"
  /\ CycleOnly
  /\ traversal.rules = RULES_M
  /\ traversal.relation = "m"
  /\ traversal.maxDepth >= 3
  /\ traversal.expanded = <<visitKey("node", "a", "m"), visitKey("node", "b", "m")>>
  /\ ~traversal.allowed

----------------------------------------------------------------------------
(* C15 *)

\* the rules listed under `${type}:${relation}`
RulesOf(type, relation) ==
  {traversal.rules.entries[i].rules[j] :
     <<i, j>> \in {<<i, j>> \in (1..Len(traversal.rules.entries)) \X (1..4) :
                     /\ j <= Len(traversal.rules.entries[i].rules)
                     /\ traversal.rules.entries[i].key
                          = <<type, COLON, relation>>}}

\* one rewrite of (object, relation): the parents P of a rule's through type
\* with a stored tuple (P, via, object), each with the rule's inherit relation
Rewrites(pair) ==
  {<<<<relationships[x[1]].subjectType, relationships[x[1]].subjectId>>,
     x[2].inherit>> :
     x \in {y \in (1..Len(relationships)) \X RulesOf(pair[1][1], pair[2]) :
              /\ relationships[y[1]].objectType = pair[1][1]
              /\ relationships[y[1]].objectId = pair[1][2]
              /\ relationships[y[1]].relation = y[2].via
              /\ relationships[y[1]].subjectType = y[2].through}}

\* the (object, relation) pairs that k rewrites lead to from the call's own
RECURSIVE Ancestors(_)
Ancestors(k) ==
  IF k = 0
  THEN {<<<<traversal.objectType, traversal.objectId>>, traversal.relation>>}
  ELSE UNION {Rewrites(pair) : pair \in Ancestors(k - 1)}

\* a derivation with k rewrites: the subject holds r_k on o_k
Derives(k) ==
  \E pair \in Ancestors(k) :
    Stored(<<traversal.subjectType, traversal.subjectId>>, pair[2], pair[1])

\* C15: checkRelationWithTraversal returns allowed = true iff the direct tuple
\* is stored, or rules were supplied and some chain of k rule rewrites,
\* 1 <= k <= maxDepth - 1, leads from the object through stored via-tuples to
\* an ancestor on which the subject holds the inherited relation.
C15_TraversalCorrect ==
  traversal.phase = "done" =>
    (traversal.allowed <=>
       \/ Derives(0)
       \/ /\ traversal.rules.present
          /\ \E k \in 1..(traversal.maxDepth - 1) : Derives(k))

\* a two-rewrite chain a <- b <- c with the subject on c and nothing nearer:
\* the call returned allowed = true
C15_Witness ==
  /\ traversal.phase = "done"
  /\ traversal.allowed
  /\ ~Derives(0)
  /\ ~Derives(1)
  /\ Derives(2)

\* the same chain with maxDepth = 2: the call returned allowed = false
C15_WitnessDepthBound ==
  /\ traversal.phase = "done"
  /\ ~traversal.allowed
  /\ traversal.maxDepth = 2
  /\ Derives(2)

----------------------------------------------------------------------------
(* C16 *)

\* the entry is `${st}:${si} -[${r}]-> ${ot}:${oi}` of a stored tuple
EntryStored(entry) ==
  \E n \in 1..Len(relationships) :
    entry = <<relationships[n].subjectType, COLON, relationships[n].subjectId,
              " -[", relationships[n].relation, "]-> ",
              relationships[n].objectType, COLON, relationships[n].objectId>>

EntrySubject(entry) == <<entry[1], entry[3]>>
EntryObject(entry) == <<entry[7], entry[9]>>

\* the entries walk upward from the requested object and the last one is the
\* subject's edge to the ancestor reached
WalkOrder(path) ==
  /\ EntryObject(path[1]) = <<traversal.objectType, traversal.objectId>>
  /\ \A i \in 2..Len(path) : EntryObject(path[i]) = EntrySubject(path[i - 1])
  /\ EntrySubject(path[Len(path)])
       = <<traversal.subjectType, traversal.subjectId>>

\* C16: when checkRelationWithTraversal returns allowed = true after k rule
\* rewrites, path has exactly k + 1 entries: the k via-edges from the
\* requested object upward in walk order, then the subject's edge; every entry
\* is a stored tuple; and k is the least number of rewrites of any derivation
\* (a direct tuple gives 1 entry, a one-rewrite derivation 2).
C16_TraversalPath ==
  (traversal.phase = "done" /\ traversal.allowed) =>
    LET k == Len(traversal.path) - 1
    IN /\ k >= 0
       /\ Derives(k)
       /\ \A j \in 0..(k - 1) : ~Derives(j)
       /\ \A i \in 1..(k + 1) : EntryStored(traversal.path[i])
       /\ WalkOrder(traversal.path)

\* on the cycle a <-> b with the subject on b there are derivations with one
\* and with three rewrites; the call returned the two-entry path
C16_Witness ==
  /\ traversal.phase = "done"
  /\ traversal.allowed
  /\ Len(traversal.path) = 2
  /\ Derives(1)
  /\ Derives(3)
  /\ traversal.maxDepth > 3

----------------------------------------------------------------------------
(* SpecRoleAdmin: the role mutations of mutations.ts with the audit log,    *)
(* expiry and the sweep; call holds the last call and what it handed back   *)

\* most roleAssignments rows, and most permissionOverrides rows, stored
MaxAdminRows == 3
\* most auditLog rows stored
MaxAuditRows == 1

AdminScopes == {NoScope, ORG_ACME}
AdminExpiry == {NoExpiry, 2}

RoleCall(op, userId, role, scope, enableAudit, result) == [phase |-> "returned", op |-> op, userId |-> userId, role |-> role, scope |-> scope, enableAudit |-> enableAudit, result |-> result]

RoleAdminFits ==
  /\ Len(roleAssignments') <= MaxAdminRows
  /\ Len(auditLog') <= MaxAuditRows

RoleAdminAssign ==
  /\ \E scope \in AdminScopes, expiresAt \in AdminExpiry, enableAudit \in BOOLEAN :
       /\ assignRole("alice", "admin", scope, expiresAt, "root", enableAudit)
       /\ call' = RoleCall("assignRole", "alice", "admin", scope, enableAudit,
                           assignRoleResult("alice", "admin", scope))
  /\ RoleAdminFits
  /\ UNCHANGED <<idxVars, now, roundTrip, newVars, relationships, traversal>>

RoleAdminRevoke ==
  /\ \E scope \in AdminScopes, enableAudit \in BOOLEAN :
       /\ revokeRole("alice", "admin", scope, "root", enableAudit)
       /\ call' = RoleCall("revokeRole", "alice", "admin", scope, enableAudit,
                           revokeRoleResult("alice", "admin", scope))
  /\ RoleAdminFits
  /\ UNCHANGED <<idxVars, now, roundTrip, newVars, relationships, traversal>>

RoleAdminRevokeAll ==
  /\ \E scope \in AdminScopes :
       /\ revokeAllRoles("alice", scope, "root", FALSE)
       /\ call' = RoleCall("revokeAllRoles", "alice", "", scope, FALSE,
                           revokeAllRolesResult("alice", scope))
  /\ UNCHANGED <<idxVars, now, roundTrip, newVars, relationships, traversal>>

RoleAdminCleanup ==
  /\ cleanupExpired
  /\ call' = RoleCall("cleanupExpired", "", "", NoScope, FALSE,
                      cleanupExpiredResult)
  /\ UNCHANGED <<idxVars, now, roundTrip, newVars, relationships, traversal>>

RoleAdminTick ==
  /\ Tick
  /\ call' = NoCall
  /\ UNCHANGED <<stdVars, idxVars, roundTrip, newVars, relationships, traversal,
                 auditLog>>

NextRoleAdmin ==
  \/ RoleAdminAssign
  \/ RoleAdminRevoke
  \/ RoleAdminRevokeAll
  \/ RoleAdminCleanup
  \/ RoleAdminTick

SpecRoleAdmin == Init /\ [][NextRoleAdmin]_vars

----------------------------------------------------------------------------
(* C17 *)

\* the stored assignments of exactly (userId, role, scope) that have not
\* expired
LiveAssignments(table, userId, role, scope) ==
  {n \in 1..Len(table) :
     /\ table[n].userId = userId
     /\ table[n].role = role
     /\ table[n].scope = scope
     /\ Live(table[n].expiresAt)}

\* C17: after any sequence of assignRole, revokeRole, revokeAllRoles and
\* cleanupExpired calls and any passage of time, roleAssignments holds at
\* most one non-expired row per (userId, role, scope).
C17_OneLiveAssignment ==
  \A i, j \in 1..Len(roleAssignments) :
    (/\ roleAssignments[i].userId = roleAssignments[j].userId
     /\ roleAssignments[i].role = roleAssignments[j].role
     /\ roleAssignments[i].scope = roleAssignments[j].scope
     /\ Live(roleAssignments[i].expiresAt)
     /\ Live(roleAssignments[j].expiresAt))
      => i = j

\* the triple was assigned again after its first assignment expired: two rows
\* are stored for it, one of them live
C17_Witness ==
  /\ Len(roleAssignments) >= 2
  /\ roleAssignments[1].scope = roleAssignments[2].scope
  /\ ~Live(roleAssignments[1].expiresAt)
  /\ Live(roleAssignments[2].expiresAt)

----------------------------------------------------------------------------
(* C18 *)

\* C18: assignRole(u, r, s) raises ALREADY_EXISTS and leaves roleAssignments
\* and auditLog as they were (enableAudit or not) exactly when a non-expired
\* assignment of (u, r, s) is stored; otherwise (other scope only, or the
\* earlier assignment expired) it succeeds and appends the row.
C18_DuplicateAssignment ==
  [][(call'.phase = "returned" /\ call'.op = "assignRole") =>
       IF LiveAssignments(roleAssignments, call'.userId, call'.role,
                          call'.scope) # {}
       THEN /\ call'.result = [threw |-> TRUE, value |-> "ALREADY_EXISTS"]
            /\ roleAssignments' = roleAssignments
            /\ auditLog' = auditLog
       ELSE /\ ~call'.result.threw
            /\ Len(roleAssignments') = Len(roleAssignments) + 1
            /\ roleAssignments'[Len(roleAssignments')].role = call'.role
            /\ roleAssignments'[Len(roleAssignments')].scope = call'.scope
            /\ SubSeq(roleAssignments', 1, Len(roleAssignments))
                 = roleAssignments]_vars

\* an audited duplicate call was refused while the log is still empty
C18_Witness ==
  /\ call.phase = "returned"
  /\ call.op = "assignRole"
  /\ call.enableAudit
  /\ call.result = [threw |-> TRUE, value |-> "ALREADY_EXISTS"]
  /\ auditLog = <<>>
  /\ LiveAssignments(roleAssignments, call.userId, call.role, call.scope) # {}

\* the same triple was assigned again after the earlier assignment expired
C18_WitnessAfterExpiry ==
  /\ call.phase = "returned"
  /\ call.op = "assignRole"
  /\ ~call.result.threw
  /\ \E n \in 1..Len(roleAssignments) :
       /\ n < Len(roleAssignments)
       /\ roleAssignments[n].scope = call.scope
       /\ ~Live(roleAssignments[n].expiresAt)

----------------------------------------------------------------------------
(* C19 *)

\* C19: after revokeRole(u, r, s) returns true no non-expired roleAssignments
\* row of exactly (u, r, s) remains (so hasRole(u, r, s) is false unless u
\* holds r globally), also when an expired, unswept assignment of the triple
\* was stored next to the live one.
C19_RevocationTakesEffect ==
  (/\ call.phase = "returned"
   /\ call.op = "revokeRole"
   /\ call.result = Returned(TRUE))
    => /\ LiveAssignments(roleAssignments, call.userId, call.role, call.scope)
            = {}
       /\ (LiveAssignments(roleAssignments, call.userId, call.role, NoScope)
             = {})
            => ~hasRole(call.userId, call.role, call.scope)

----------------------------------------------------------------------------
(* SpecOverrideAdmin: the override mutations of mutations.ts with expiry and *)
(* the sweep; call holds the last call and what it handed back              *)

\* reason and createdBy as the callers pass them: both left out, or both set
AdminNotes == {<<NoReason, NoActor>>, <<"incident", "root">>}

OverrideCall(op, effect, scope, expiresAt, note, result) == [phase |-> "returned", op |-> op, userId |-> "alice", permission |-> DOCS_READ, effect |-> effect, scope |-> scope, expiresAt |-> expiresAt, reason |-> note[1], createdBy |-> note[2], result |-> result]

OverrideAdminGrant ==
  /\ \E scope \in AdminScopes, expiresAt \in AdminExpiry, note \in AdminNotes :
       /\ grantPermission("alice", DOCS_READ, scope, expiresAt, note[1],
                          note[2], FALSE)
       /\ call' = OverrideCall("grantPermission", "allow", scope, expiresAt,
                               note,
                               writeOverrideResult("alice", DOCS_READ, scope))
  /\ Len(permissionOverrides') <= MaxAdminRows
  /\ UNCHANGED <<idxVars, now, roundTrip, newVars, relationships, traversal>>

OverrideAdminDeny ==
  /\ \E scope \in AdminScopes, expiresAt \in AdminExpiry, note \in AdminNotes :
       /\ denyPermission("alice", DOCS_READ, scope, expiresAt, note[1],
                         note[2], FALSE)
       /\ call' = OverrideCall("denyPermission", "deny", scope, expiresAt,
                               note,
                               writeOverrideResult("alice", DOCS_READ, scope))
  /\ Len(permissionOverrides') <= MaxAdminRows
  /\ UNCHANGED <<idxVars, now, roundTrip, newVars, relationships, traversal>>

OverrideAdminRemove ==
  /\ \E scope \in AdminScopes :
       /\ removePermissionOverride("alice", DOCS_READ, scope, NoActor, FALSE)
       /\ call' = OverrideCall("removePermissionOverride", "", scope,
                               NoExpiry, <<NoReason, NoActor>>,
                               removePermissionOverrideResult("alice",
                                                              DOCS_READ,
                                                              scope))
  /\ UNCHANGED <<idxVars, now, roundTrip, newVars, relationships, traversal>>

OverrideAdminCleanup ==
  /\ cleanupExpired
  /\ call' = OverrideCall("cleanupExpired", "", NoScope, NoExpiry,
                          <<NoReason, NoActor>>, cleanupExpiredResult)
  /\ UNCHANGED <<idxVars, now, roundTrip, newVars, relationships, traversal>>

OverrideAdminTick ==
  /\ Tick
  /\ call' = NoCall
  /\ UNCHANGED <<stdVars, idxVars, roundTrip, newVars, relationships, traversal,
                 auditLog>>

NextOverrideAdmin ==
  \/ OverrideAdminGrant
  \/ OverrideAdminDeny
  \/ OverrideAdminRemove
  \/ OverrideAdminCleanup
  \/ OverrideAdminTick

SpecOverrideAdmin == Init /\ [][NextOverrideAdmin]_vars

----------------------------------------------------------------------------
(* C20 *)

\* the stored overrides of exactly (userId, permission, scope) that have not
\* expired
LiveOverrides(table, userId, permission, scope) ==
  {n \in 1..Len(table) :
     /\ table[n].userId = userId
     /\ table[n].permission = permission
     /\ table[n].scope = scope
     /\ Live(table[n].expiresAt)}

OneLiveOverride ==
  \A i, j \in 1..Len(permissionOverrides) :
    (/\ permissionOverrides[i].userId = permissionOverrides[j].userId
     /\ permissionOverrides[i].permission = permissionOverrides[j].permission
     /\ permissionOverrides[i].scope = permissionOverrides[j].scope
     /\ Live(permissionOverrides[i].expiresAt)
     /\ Live(permissionOverrides[j].expiresAt))
      => i = j

\* a grant or deny of a triple that has a non-expired row n: nothing is
\* inserted, row n takes the call's effect, reason, createdBy and expiresAt,
\* its id is handed back, and every live row of the triple afterwards carries
\* the call's effect
RepeatPatches ==
  (/\ call'.phase = "returned"
   /\ call'.op \in {"grantPermission", "denyPermission"}
   /\ LiveOverrides(permissionOverrides, call'.userId, call'.permission,
                    call'.scope) # {})
    => /\ Len(permissionOverrides') = Len(permissionOverrides)
       /\ \E n \in LiveOverrides(permissionOverrides, call'.userId,
                                 call'.permission, call'.scope) :
            /\ call'.result = Returned(n)
            /\ permissionOverrides' =
                 [permissionOverrides EXCEPT
                    ![n] = [@ EXCEPT !.effect = call'.effect,
                                     !.reason = call'.reason,
                                     !.createdBy = call'.createdBy,
                                     !.expiresAt = call'.expiresAt]]
       /\ \A n \in LiveOverrides(permissionOverrides', call'.userId,
                                 call'.permission, call'.scope) :
            permissionOverrides'[n].effect = call'.effect

\* C20: after any sequence of grantPermission, denyPermission,
\* removePermissionOverride and cleanupExpired calls permissionOverrides holds
\* at most one non-expired row per (userId, permission, scope); a repeated
\* grant or deny for a triple with a non-expired row patches that row
\* (effect, reason, createdBy, expiresAt) and returns its id instead of
\* inserting, so the last call's effect is the one in force.
C20_OverrideUniqueness == []OneLiveOverride /\ [][RepeatPatches]_vars

\* a deny followed a grant of the same triple: one row, now a deny carrying
\* the second call's reason
C20_Witness ==
  /\ call.phase = "returned"
  /\ call.op = "denyPermission"
  /\ call.reason = "incident"
  /\ call.result = Returned(1)
  /\ Len(permissionOverrides) = 1
  /\ permissionOverrides[1].effect = "deny"
  /\ permissionOverrides[1].reason = "incident"

\* an expired override is stored next to the live one of the same triple
C20_WitnessExpiredBeside ==
  /\ Len(permissionOverrides) >= 2
  /\ permissionOverrides[1].scope = permissionOverrides[2].scope
  /\ ~Live(permissionOverrides[1].expiresAt)
  /\ Live(permissionOverrides[2].expiresAt)

----------------------------------------------------------------------------
(* indexed.ts: effectiveRelationships *)

\* most effectiveRelationships rows stored
MaxRelRows == 5
\* largest _id handed out to an effectiveRelationships row
MaxRelId == 5

\* `inheritedFrom: null`
NoId == 0

\* `${type}:${id}`
entityKey(type, id) == <<type, COLON, id>>

\* an effectiveRelationships row; these rows carry their _id, which
\* inheritedFrom of other rows refers to
EffectiveRelationshipRow(id, subjectType, subjectId, relation, objectType, objectId, isDirect, inheritedFrom) == [id |-> id, subjectKey |-> entityKey(subjectType, subjectId), subjectType |-> subjectType, subjectId |-> subjectId, relation |-> relation, objectKey |-> entityKey(objectType, objectId), objectType |-> objectType, objectId |-> objectId, isDirect |-> isDirect, inheritedFrom |-> inheritedFrom]

\* the _id db.insert hands out: one never used by a row still stored or
\* referred to
RECURSIVE maxId(_, _)
maxId(table, k) ==
  IF k > Len(table) THEN 0
  ELSE LET rest == maxId(table, k + 1)
       IN IF table[k].id > rest THEN table[k].id ELSE rest

freshId(table) == maxId(table, 1) + 1

\* the by_subject_relation_object lookup: the position of the row, or 0
relationLookup(table, subjectKey, relation, objectKey) ==
  FindFirst([n \in 1..Len(table) |->
               /\ table[n].subjectKey = subjectKey
               /\ table[n].relation = relation
               /\ table[n].objectKey = objectKey])

\* the handler, over the table it queries
hasRelationFastOn(table, subjectType, subjectId, relation, objectType, objectId) ==
  relationLookup(table, entityKey(subjectType, subjectId),
                 relation, entityKey(objectType, objectId)) # 0

hasRelationFast(subjectType, subjectId, relation, objectType, objectId) ==
  hasRelationFastOn(effectiveRelationships, subjectType, subjectId, relation,
                    objectType, objectId)

\* `for (const parent of matchingParents)`
RECURSIVE inheritParents(_, _, _, _, _, _, _)
inheritParents(table, subjectType, subjectId, inherited, relId, parents, k) ==
  IF k > Len(parents) THEN table
  ELSE LET parent == parents[k]
           existingInherited ==
             relationLookup(table, entityKey(subjectType, subjectId),
                            inherited.relation, parent.objectKey)
           next ==
             IF existingInherited = 0
             THEN Append(table,
                         EffectiveRelationshipRow(freshId(table), subjectType,
                           subjectId, inherited.relation, parent.objectType,
                           parent.objectId, FALSE, relId))
             ELSE table
       IN inheritParents(next, subjectType, subjectId, inherited, relId,
                         parents, k + 1)

\* fault: every by_subject_relation row is taken as a parent, whatever its
\* object type
matchingParentsAnyType(table, objectKey, inherited) ==
  SelectSeq(table, LAMBDA r :
    /\ r.subjectKey = objectKey
    /\ r.relation = inherited.fromRelation)

\* the by_subject_relation rows of the object, filtered to fromObjectType
matchingParents(table, objectKey, inherited) ==
  SelectSeq(table, LAMBDA r :
    /\ r.subjectKey = objectKey
    /\ r.relation = inherited.fromRelation
    /\ r.objectType = inherited.fromObjectType)

\* `for (const inherited of args.inheritedRelations)`; a list left out of the
\* call behaves as the empty list
RECURSIVE inheritLoop(_, _, _, _, _, _, _)
inheritLoop(table, subjectType, subjectId, objectKey, relId, inheritedRelations, k) ==
  IF k > Len(inheritedRelations) THEN table
  ELSE inheritLoop(
         inheritParents(table, subjectType, subjectId, inheritedRelations[k],
                        relId,
                        matchingParents(table, objectKey,
                                        inheritedRelations[k]),
                        1),
         subjectType, subjectId, objectKey, relId, inheritedRelations, k + 1)

\* the handler, as the table it leaves
addRelationWithComputeOn(table, subjectType, subjectId, relation, objectType, objectId, inheritedRelations) ==
  LET subjectKey == entityKey(subjectType, subjectId)
      objectKey == entityKey(objectType, objectId)
      existing == relationLookup(table, subjectKey, relation, objectKey)
      relId == freshId(table)
      stored == Append(table,
                       EffectiveRelationshipRow(relId, subjectType, subjectId,
                         relation, objectType, objectId, TRUE, NoId))
  IN IF existing # 0
     THEN table
     ELSE inheritLoop(stored, subjectType, subjectId, objectKey, relId,
                      inheritedRelations, 1)

addRelationWithCompute(subjectType, subjectId, relation, objectType, objectId, inheritedRelations) ==
  effectiveRelationships' =
    addRelationWithComputeOn(effectiveRelationships, subjectType, subjectId,
                             relation, objectType, objectId,
                             inheritedRelations)

addRelationWithComputeResult(subjectType, subjectId, relation, objectType, objectId) ==
  LET existing == relationLookup(effectiveRelationships,
                                 entityKey(subjectType, subjectId), relation,
                                 entityKey(objectType, objectId))
  IN Returned(IF existing # 0 THEN effectiveRelationships[existing].id
              ELSE freshId(effectiveRelationships))

\* fault: the rows inherited from the removed one are left behind
inheritedFromNone(row, id) == FALSE

\* the by_inherited_from index: the row was inherited from the one with id
inheritedFromId(row, id) == row.inheritedFrom = id

removeRelationWithCompute(subjectType, subjectId, relation, objectType, objectId) ==
  LET existing == relationLookup(effectiveRelationships,
                                 entityKey(subjectType, subjectId), relation,
                                 entityKey(objectType, objectId))
  IN IF existing = 0
     THEN UNCHANGED effectiveRelationships
     ELSE effectiveRelationships' =
            SelectSeq(effectiveRelationships, LAMBDA rel :
              /\ ~inheritedFromId(rel, effectiveRelationships[existing].id)
              /\ rel.id # effectiveRelationships[existing].id)

removeRelationWithComputeResult(subjectType, subjectId, relation, objectType, objectId) ==
  Returned(relationLookup(effectiveRelationships,
                          entityKey(subjectType, subjectId), relation,
                          entityKey(objectType, objectId)) # 0)

(* SpecRel: the relationship mutations of the indexed strategy; call holds *)
(* the last call and what it handed back                                   *)

USER_ALICE == <<"user", "alice">>
DOC_1 == <<"doc", "d1">>
DOC_2 == <<"doc", "d2">>
FOLDER_1 == <<"folder", "f1">>
FOLDER_2 == <<"folder", "f2">>

\* the triples the callers add and remove
RelTriples ==
  { <<USER_ALICE, "viewer", DOC_1>>, <<USER_ALICE, "viewer", FOLDER_1>>,
    <<DOC_1, "parent", FOLDER_1>>, <<DOC_1, "parent", FOLDER_2>>,
    <<DOC_1, "parent", DOC_2>> }

InheritedRelation(relation, fromObjectType, fromRelation) == [relation |-> relation, fromObjectType |-> fromObjectType, fromRelation |-> fromRelation]

\* the inheritedRelations lists the callers pass
InheritedLists ==
  { <<>>,
    <<InheritedRelation("viewer", "folder", "parent")>>,
    <<InheritedRelation("viewer", "folder", "parent"),
      InheritedRelation("viewer", "folder", "parent")>>,
    <<InheritedRelation("viewer", "doc", "parent"),
      InheritedRelation("editor", "folder", "parent")>> }

RelCall(op, triple, inheritedRelations, result) == [phase |-> "returned", op |-> op, subject |-> triple[1], relation |-> triple[2], object |-> triple[3], inheritedRelations |-> inheritedRelations, result |-> result]

RelFits ==
  /\ Len(effectiveRelationships') <= MaxRelRows
  /\ \A n \in 1..Len(effectiveRelationships') :
       effectiveRelationships'[n].id <= MaxRelId

RelAdd ==
  /\ \E t \in RelTriples, inheritedRelations \in InheritedLists :
       /\ addRelationWithCompute(t[1][1], t[1][2], t[2], t[3][1], t[3][2],
                                 inheritedRelations)
       /\ call' = RelCall("addRelationWithCompute", t, inheritedRelations,
                          addRelationWithComputeResult(t[1][1], t[1][2], t[2],
                                                       t[3][1], t[3][2]))
  /\ RelFits
  /\ UNCHANGED <<stdVars, idxVars, now, roundTrip, relationships, traversal,
                 auditLog, userAttributes>>

RelRemove ==
  /\ \E t \in RelTriples \cup {<<USER_ALICE, "viewer", FOLDER_2>>} :
       /\ removeRelationWithCompute(t[1][1], t[1][2], t[2], t[3][1], t[3][2])
       /\ call' = RelCall("removeRelationWithCompute", t, <<>>,
                          removeRelationWithComputeResult(t[1][1], t[1][2],
                                                          t[2], t[3][1],
                                                          t[3][2]))
  /\ UNCHANGED <<stdVars, idxVars, now, roundTrip, relationships, traversal,
                 auditLog, userAttributes>>

NextRel == RelAdd \/ RelRemove

SpecRel == Init /\ [][NextRel]_vars

----------------------------------------------------------------------------
(* C23 *)

\* the row links subject to object by relation
RowLinks(row, subject, relation, object) ==
  /\ row.subjectType = subject[1]
  /\ row.subjectId = subject[2]
  /\ row.relation = relation
  /\ row.objectType = object[1]
  /\ row.objectId = object[2]

RowsLinking(table, subject, relation, object) ==
  {n \in 1..Len(table) : RowLinks(table[n], subject, relation, object)}

\* the (relation, parent) pairs the rules ask for: one per rule and stored row
\* (object, fromRelation, parent) with parent of type fromObjectType
RequiredInherited(table, object, rules) ==
  {<<rules[x[1]].relation, <<table[x[2]].objectType, table[x[2]].objectId>>>> :
     x \in {y \in (1..Len(rules)) \X (1..Len(table)) :
              /\ table[y[2]].subjectType = object[1]
              /\ table[y[2]].subjectId = object[2]
              /\ table[y[2]].relation = rules[y[1]].fromRelation
              /\ table[y[2]].objectType = rules[y[1]].fromObjectType}}

\* what a call on a triple not yet stored leaves behind
Materialized(pre, post, subject, relation, object, rules, result) ==
  LET d == Len(pre) + 1
      required == RequiredInherited(pre, object, rules)
  IN /\ Len(post) >= d
     /\ SubSeq(post, 1, Len(pre)) = pre
     /\ RowLinks(post[d], subject, relation, object)
     /\ post[d].isDirect
     /\ post[d].inheritedFrom = NoId
     /\ result = Returned(post[d].id)
     /\ \A i, j \in 1..Len(post) : post[i].id = post[j].id => i = j
     /\ \A req \in required : RowsLinking(post, subject, req[1], req[2]) # {}
     /\ \A n \in (d + 1)..Len(post) :
          /\ ~post[n].isDirect
          /\ post[n].inheritedFrom = post[d].id
          /\ \E req \in required : RowLinks(post[n], subject, req[1], req[2])
          /\ \A m \in 1..(n - 1) :
               ~RowLinks(post[m], subject, post[n].relation,
                         <<post[n].objectType, post[n].objectId>>)

\* C23: addRelationWithCompute(s, rel, o, rules) on a triple not yet stored
\* inserts one row (s, rel, o) with isDirect = true and inheritedFrom = null
\* and, for each rule and each stored row (o, fromRelation, parent) with
\* parent of type fromObjectType, makes sure a row (s, rule.relation, parent)
\* exists, inserting it with isDirect = false and inheritedFrom = the new
\* row's id when absent, and nothing else (one hop); on a stored triple it
\* returns the existing id and inserts nothing.
C23_Materialization ==
  [][(call'.phase = "returned" /\ call'.op = "addRelationWithCompute") =>
       LET found == RowsLinking(effectiveRelationships, call'.subject,
                                call'.relation, call'.object)
       IN IF found # {}
          THEN /\ effectiveRelationships' = effectiveRelationships
               /\ \E n \in found :
                    call'.result = Returned(effectiveRelationships[n].id)
          ELSE Materialized(effectiveRelationships, effectiveRelationships',
                            call'.subject, call'.relation, call'.object,
                            call'.inheritedRelations, call'.result)]_vars

\* alice was made viewer of d1, which has two parent folders: the direct row
\* and one inherited row per folder were stored
C23_Witness ==
  /\ call.phase = "returned"
  /\ call.op = "addRelationWithCompute"
  /\ call.subject = USER_ALICE
  /\ call.object = DOC_1
  /\ Len(effectiveRelationships) = 5
  /\ effectiveRelationships[3].isDirect
  /\ call.result = Returned(effectiveRelationships[3].id)
  /\ RowLinks(effectiveRelationships[4], USER_ALICE, "viewer", FOLDER_1)
       \/ RowLinks(effectiveRelationships[4], USER_ALICE, "viewer", FOLDER_2)
  /\ effectiveRelationships[4].inheritedFrom = effectiveRelationships[3].id
  /\ effectiveRelationships[5].inheritedFrom = effectiveRelationships[3].id

----------------------------------------------------------------------------
(* C24 *)

\* every inherited row names a stored row
NoDanglingInheritance ==
  \A n \in 1..Len(effectiveRelationships) :
    ~effectiveRelationships[n].isDirect =>
      \E m \in 1..Len(effectiveRelationships) :
        effectiveRelationships[m].id = effectiveRelationships[n].inheritedFrom

\* a successful removal leaves no row of the triple to look up
RemovedIsGone ==
  (/\ call.phase = "returned"
   /\ call.op = "removeRelationWithCompute"
   /\ call.result = Returned(TRUE))
    => ~hasRelationFast(call.subject[1], call.subject[2], call.relation,
                        call.object[1], call.object[2])

\* the rows a removal takes: the row of the triple and those inherited from it
CascadeOf(table, n) ==
  {m \in 1..Len(table) : m = n \/ table[m].inheritedFrom = table[n].id}

\* post is table without the rows at the positions in gone, in the same order
WithoutRows(table, gone, post) ==
  /\ Len(post) = Len(table) - Cardinality(gone)
  /\ \A m \in (1..Len(table)) \ gone :
       post[m - Cardinality({g \in gone : g < m})] = table[m]

CascadeStep ==
  (call'.phase = "returned" /\ call'.op = "removeRelationWithCompute") =>
    LET found == RowsLinking(effectiveRelationships, call'.subject,
                             call'.relation, call'.object)
    IN IF found = {}
       THEN /\ call'.result = Returned(FALSE)
            /\ effectiveRelationships' = effectiveRelationships
       ELSE /\ call'.result = Returned(TRUE)
            /\ \E n \in found :
                 WithoutRows(effectiveRelationships,
                             CascadeOf(effectiveRelationships, n),
                             effectiveRelationships')

\* C24: removeRelationWithCompute on a stored (subject, relation, object) row
\* deletes that row and every row whose inheritedFrom is its id, and no other
\* row; on an absent triple it returns false and changes nothing. In every
\* reachable state each row with isDirect = false has an inheritedFrom that
\* names a stored row, and hasRelationFast is false for the removed triple.
C24_CascadeDelete ==
  /\ [](NoDanglingInheritance /\ RemovedIsGone)
  /\ [][CascadeStep]_vars

\* alice's viewer row on d1 was removed together with what it had inherited:
\* the two parent rows of d1 are all that is left of five
C24_Witness ==
  /\ call.phase = "returned"
  /\ call.op = "removeRelationWithCompute"
  /\ call.subject = USER_ALICE
  /\ call.object = DOC_1
  /\ call.result = Returned(TRUE)
  /\ Len(effectiveRelationships) = 2
  /\ effectiveRelationships[1].id = 1
  /\ effectiveRelationships[2].id = 2
  /\ RowLinks(effectiveRelationships[1], DOC_1, "parent", FOLDER_1)
  /\ RowLinks(effectiveRelationships[2], DOC_1, "parent", FOLDER_2)

----------------------------------------------------------------------------
(* SpecKeys: every mutation that writes an index table. The relationship    *)
(* mutations read and write effectiveRelationships only and the role and    *)
(* permission mutations never touch it, so a behaviour works on one of the  *)
(* two groups of tables, from the common initial state.                     *)

IndexCall(op, userId, role, scope, expiresAt) == [phase |-> "returned", op |-> op, userId |-> userId, role |-> role, scope |-> scope, expiresAt |-> expiresAt]

\* most effectiveRoles and effectivePermissions rows stored together
MaxKeyRows == 3

KeysFit == Len(effectiveRoles') + Len(effectivePermissions') <= MaxKeyRows

\* the calls the callers make
KeyRoleCalls ==
  ({"alice"} \X Roles \X {NoScope} \X ExpiryValues)
    \cup {<<"alice", "viewer", ORG_ACME, NoExpiry>>}
KeyDirectCalls == {"alice"} \X {DOCS_READ} \X {NoScope} \X ExpiryValues

KeysAssign ==
  /\ effectiveRelationships = <<>>
  /\ \E c \in KeyRoleCalls :
       /\ assignRoleWithCompute(c[1], c[2], RoleMapPlain[c[2]], c[3], c[4])
       /\ call' = IndexCall("assignRoleWithCompute", c[1], c[2], c[3], c[4])
  /\ KeysFit
  /\ UNCHANGED <<stdVars, now, roundTrip, relationships, traversal, auditLog,
                 newVars>>

KeysRevoke ==
  /\ effectiveRelationships = <<>>
  /\ \E c \in KeyRoleCalls :
       /\ revokeRoleWithCompute(c[1], c[2], RoleMapPlain[c[2]], c[3])
       /\ call' = IndexCall("revokeRoleWithCompute", c[1], c[2], c[3],
                            NoExpiry)
  /\ UNCHANGED <<stdVars, now, roundTrip, relationships, traversal, auditLog,
                 newVars>>

KeysGrant ==
  /\ effectiveRelationships = <<>>
  /\ \E c \in KeyDirectCalls :
       /\ grantPermissionDirect(c[1], c[2], c[3], c[4])
       /\ call' = IndexCall("grantPermissionDirect", c[1], "", c[3], c[4])
  /\ KeysFit
  /\ UNCHANGED <<stdVars, now, roundTrip, relationships, traversal, auditLog,
                 newVars>>

KeysDeny ==
  /\ effectiveRelationships = <<>>
  /\ \E c \in KeyDirectCalls :
       /\ denyPermissionDirect(c[1], c[2], c[3], c[4])
       /\ call' = IndexCall("denyPermissionDirect", c[1], "", c[3], c[4])
  /\ KeysFit
  /\ UNCHANGED <<stdVars, now, roundTrip, relationships, traversal, auditLog,
                 newVars>>

KeysCleanup ==
  /\ effectiveRelationships = <<>>
  /\ cleanupExpiredIndexed
  /\ call' = IndexCall("cleanupExpired", "", "", NoScope, NoExpiry)
  /\ UNCHANGED <<stdVars, now, roundTrip, relationships, traversal, auditLog,
                 newVars>>

KeysTick ==
  /\ effectiveRelationships = <<>>
  /\ Tick
  /\ call' = NoCall
  /\ UNCHANGED <<stdVars, idxVars, roundTrip, relationships, traversal,
                 auditLog, newVars>>

KeysAddRelation ==
  /\ effectiveRoles = <<>>
  /\ effectivePermissions = <<>>
  /\ now = 1
  /\ RelAdd

KeysRemoveRelation ==
  /\ effectiveRoles = <<>>
  /\ effectivePermissions = <<>>
  /\ now = 1
  /\ RelRemove

NextKeys ==
  \/ KeysAssign
  \/ KeysRevoke
  \/ KeysGrant
  \/ KeysDeny
  \/ KeysCleanup
  \/ KeysTick
  \/ KeysAddRelation
  \/ KeysRemoveRelation

SpecKeys == Init /\ [][NextKeys]_vars

----------------------------------------------------------------------------
(* C21 *)

UniqueRoleKeys ==
  \A i, j \in 1..Len(effectiveRoles) :
    (/\ effectiveRoles[i].userId = effectiveRoles[j].userId
     /\ effectiveRoles[i].role = effectiveRoles[j].role
     /\ effectiveRoles[i].scopeKey = effectiveRoles[j].scopeKey) => i = j

UniquePermissionKeys ==
  \A i, j \in 1..Len(effectivePermissions) :
    (/\ effectivePermissions[i].userId = effectivePermissions[j].userId
     /\ effectivePermissions[i].permission = effectivePermissions[j].permission
     /\ effectivePermissions[i].scopeKey = effectivePermissions[j].scopeKey)
      => i = j

UniqueRelationshipKeys ==
  \A i, j \in 1..Len(effectiveRelationships) :
    (/\ effectiveRelationships[i].subjectKey
          = effectiveRelationships[j].subjectKey
     /\ effectiveRelationships[i].relation = effectiveRelationships[j].relation
     /\ effectiveRelationships[i].objectKey
          = effectiveRelationships[j].objectKey) => i = j

\* the effectiveRoles rows of the triple a call names
AssignedRows(userId, role, scope) ==
  {n \in 1..Len(effectiveRoles) :
     /\ effectiveRoles[n].userId = userId
     /\ effectiveRoles[n].role = role
     /\ effectiveRoles[n].scopeKey
          = IF scope = NoScope THEN <<"global">>
            ELSE <<scope[1], ":", scope[2]>>}

\* an assignment of a triple that has a row patches that row's expiresAt
ReassignPatches ==
  (/\ call'.phase = "returned"
   /\ call'.op = "assignRoleWithCompute"
   /\ AssignedRows(call'.userId, call'.role, call'.scope) # {})
    => \E n \in AssignedRows(call'.userId, call'.role, call'.scope) :
         effectiveRoles' =
           [effectiveRoles EXCEPT ![n].expiresAt = call'.expiresAt]

\* C21: in every state reachable through the indexed mutations
\* effectiveRoles has at most one row per (userId, role, scopeKey),
\* effectivePermissions at most one per (userId, permission, scopeKey) and
\* effectiveRelationships at most one per (subjectKey, relation, objectKey);
\* assignRoleWithCompute on an assigned triple patches expiresAt instead of
\* inserting a second row.
C21_IndexKeysUnique ==
  /\ [](UniqueRoleKeys /\ UniquePermissionKeys /\ UniqueRelationshipKeys)
  /\ [][ReassignPatches]_vars

\* alice's viewer role was assigned a second time, now with an expiry: still
\* one row, carrying the new expiresAt
C21_Witness ==
  /\ call.phase = "returned"
  /\ call.op = "assignRoleWithCompute"
  /\ call.expiresAt = 2
  /\ Len(effectiveRoles) = 1
  /\ effectiveRoles[1].expiresAt = 2
  /\ Len(effectivePermissions) = 1
  /\ effectivePermissions[1].expiresAt = NoExpiry

----------------------------------------------------------------------------
(* SpecStore: addRelation, removeRelation and hasDirectRelation of rebac.ts; *)
(* call holds the last call and what it handed back                          *)

StoreCall(op, tuple, result) == [phase |-> "returned", op |-> op, subject |-> tuple[1], relation |-> tuple[2], object |-> tuple[3], result |-> result]

StoreAdd ==
  /\ \E t \in TupleArgs :
       /\ addRelation(t[1][1], t[1][2], t[2], t[3][1], t[3][2])
       /\ call' = StoreCall("addRelation", t,
                            addRelationResult(t[1][1], t[1][2], t[2], t[3][1],
                                              t[3][2]))
  /\ Len(relationships') <= MaxTuples
  /\ UNCHANGED <<stdVars, idxVars, now, roundTrip, newVars, traversal,
                 auditLog>>

StoreRemove ==
  /\ \E t \in TupleArgs :
       /\ removeRelation(t[1][1], t[1][2], t[2], t[3][1], t[3][2])
       /\ call' = StoreCall("removeRelation", t,
                            removeRelationResult(t[1][1], t[1][2], t[2],
                                                 t[3][1], t[3][2]))
  /\ UNCHANGED <<stdVars, idxVars, now, roundTrip, newVars, traversal,
                 auditLog>>

StoreHas ==
  /\ \E t \in TupleArgs :
       call' = StoreCall("hasDirectRelation", t,
                         Returned(hasDirectRelation(t[1][1], t[1][2], t[2],
                                                    t[3][1], t[3][2])))
  /\ UNCHANGED <<stdVars, idxVars, now, roundTrip, newVars, relationships,
                 traversal, auditLog>>

NextStore == StoreAdd \/ StoreRemove \/ StoreHas

SpecStore == Init /\ [][NextStore]_vars

----------------------------------------------------------------------------
(* C22 *)

\* the stored 5-tuples, as a set
StoredTuples(table) ==
  {<<<<table[n].subjectType, table[n].subjectId>>, table[n].relation,
     <<table[n].objectType, table[n].objectId>>>> : n \in 1..Len(table)}

\* no tuple is stored twice
StoredOnce ==
  \A i, j \in 1..Len(relationships) :
    relationships[i] = relationships[j] => i = j

\* a lookup answers true exactly for the stored tuples
HasIsStored ==
  (call.phase = "returned" /\ call.op = "hasDirectRelation") =>
    (call.result = Returned(TRUE)
       <=> <<call.subject, call.relation, call.object>>
             \in StoredTuples(relationships))

\* an add leaves the tuple stored and a remove leaves it absent, each touching
\* no other tuple; an add of a stored tuple and a remove of an absent one
\* change nothing
StoreStep ==
  LET t == <<call'.subject, call'.relation, call'.object>>
      before == StoredTuples(relationships)
      after == StoredTuples(relationships')
  IN /\ (call'.phase = "returned" /\ call'.op = "addRelation") =>
          /\ after = before \cup {t}
          /\ t \in before =>
               /\ relationships' = relationships
               /\ \E n \in 1..Len(relationships) :
                    /\ call'.result = Returned(n)
                    /\ RowLinks(relationships[n], t[1], t[2], t[3])
          /\ t \notin before =>
               /\ Len(relationships') = Len(relationships) + 1
               /\ call'.result = Returned(Len(relationships'))
     /\ (call'.phase = "returned" /\ call'.op = "removeRelation") =>
          /\ after = before \ {t}
          /\ call'.result = Returned(t \in before)
          /\ t \notin before => relationships' = relationships
          /\ t \in before => Len(relationships') = Len(relationships) - 1

\* C22: after any sequence of addRelation and removeRelation calls the
\* relationships table holds exactly the 5-tuples whose last operation was an
\* add, each at most once; addRelation on a stored tuple inserts nothing and
\* returns the existing id, removeRelation on an absent tuple returns false
\* and changes nothing, and hasDirectRelation(t) is true iff t is stored.
C22_RelationshipStore ==
  /\ [](StoredOnce /\ HasIsStored)
  /\ [][StoreStep]_vars

\* a second add of a stored tuple handed back the first row's id and left the
\* two stored rows as they were
C22_Witness ==
  /\ call.phase = "returned"
  /\ call.op = "addRelation"
  /\ call.result = Returned(1)
  /\ Len(relationships) = 2
  /\ RowLinks(relationships[1], call.subject, call.relation, call.object)

----------------------------------------------------------------------------
(* C25 *)

\* C25: getEffectivePermissions never reports a permission as both granted
\* and denied: for every user, scope and role map, in every reachable state,
\* no permission listed in deniedPermissions also appears in permissions,
\* whatever order the user's override rows were created in.
C25_GrantedOrDenied ==
  \A u \in Users, s \in QueryScopes, m \in RoleMaps :
    LET r == getEffectivePermissions(u, m, s)
    IN \A i \in 1..Len(r.permissions), j \in 1..Len(r.deniedPermissions) :
         r.permissions[i] # r.deniedPermissions[j]

----------------------------------------------------------------------------
(* client/authz.ts: policies.  config.policies is the list of its entries  *)
(* in Object.entries order; a policy's condition is the boolean it yields  *)

NoEffect == ""
NoDecision == [key |-> <<>>, effect |-> NoEffect, passed |-> FALSE]
PolicyDecision(key, effect, passed) == [key |-> key, effect |-> effect, passed |-> passed]
PolicyEntry(key, effect) == [key |-> key, effect |-> effect]

\* fault: every matching key scores alike
policyScoreFlat(key) == 0

\* the score of a matching key
policyScore(key) ==
  IF key = STAR \/ key = STAR_STAR THEN 0
  ELSE IF parsePermissionThrows(key) THEN 0
  ELSE (IF parsePermission(key).resource = STAR THEN 0 ELSE 2)
         + (IF parsePermission(key).action = STAR THEN 0 ELSE 1)

\* `for (const [key, policy] of Object.entries(policies))`; best is the
\* position of the best entry so far, or 0
RECURSIVE policyLoop(_, _, _, _, _)
policyLoop(policies, permission, k, best, bestScore) ==
  IF k > Len(policies) THEN Returned(best)
  ELSE LET key == policies[k].key
       IN IF key = permission THEN Returned(k)
          ELSE LET m == matchesPermissionPattern(permission, key)
               IN IF m.threw THEN [threw |-> TRUE, value |-> 0]
                  ELSE IF ~m.value
                  THEN policyLoop(policies, permission, k + 1, best, bestScore)
                  ELSE IF best = 0 \/ policyScore(key) > bestScore
                  THEN policyLoop(policies, permission, k + 1, k,
                                  policyScore(key))
                  ELSE policyLoop(policies, permission, k + 1, best, bestScore)

\* the position of the selected entry, 0 for null
getPolicyForPermission(policies, permission) ==
  LET exact == FindFirst([n \in 1..Len(policies) |->
                          policies[n].key = permission])
  IN IF policies = <<>> THEN Returned(0)
     ELSE IF exact # 0 THEN Returned(exact)
     ELSE policyLoop(policies, permission, 1, 0, 0)

\* a CheckResult with the fields applyPolicyIfNeeded may add
PolicyResult(base, allowed, policy) == [threw |-> FALSE, allowed |-> allowed, matchedRole |-> base.matchedRole, matchedOverride |-> base.matchedOverride, policy |-> policy]
PolicyThrown == [threw |-> TRUE, allowed |-> FALSE, matchedRole |-> NoRole, matchedOverride |-> NoOverride, policy |-> NoDecision]

applyPolicyIfNeeded(policies, permission, base, passed) ==
  LET policyMatch == getPolicyForPermission(policies, permission)
  IN IF policyMatch.threw THEN PolicyThrown
     ELSE IF policyMatch.value = 0
     THEN PolicyResult(base, base.allowed, NoDecision)
     ELSE LET policy == policies[policyMatch.value]
              effect == IF policy.effect = NoEffect THEN "deny"
                        ELSE policy.effect
              decision == PolicyDecision(policy.key, effect, passed)
          IN IF effect = "deny" /\ ~base.allowed
             THEN PolicyResult(base, base.allowed, NoDecision)
             ELSE IF effect = "allow" /\ base.allowed
             THEN PolicyResult(base, base.allowed, NoDecision)
             ELSE IF /\ effect = "allow"
                     /\ ~base.allowed
                     /\ base.matchedOverride # NoOverride
             THEN PolicyResult(base, base.allowed, NoDecision)
             ELSE IF effect = "deny"
             THEN IF ~passed THEN PolicyResult(base, FALSE, decision)
                  ELSE PolicyResult(base, base.allowed, decision)
             ELSE IF passed THEN PolicyResult(base, TRUE, decision)
             ELSE PolicyResult(base, base.allowed, decision)

\* Authz.runCheck
runCheck(userId, permission, scope, rolePermissions) ==
  checkPermission(userId, permission, scope, rolePermissions)

\* IndexedAuthz.runCheck
runCheckIndexed(userId, permission, scope) ==
  LET allowed == checkPermissionFast(userId, permission, ObjectType(scope),
                                     ObjectId(scope))
  IN IF allowed.threw THEN CheckThrown
     ELSE CheckResult(allowed.value, NoRole, NoOverride)

\* Authz.check and IndexedAuthz.check, auditChecks left off
check(userId, permission, scope, rolePermissions, policies, passed) ==
  LET base == runCheck(userId, permission, scope, rolePermissions)
  IN IF base.threw THEN PolicyThrown
     ELSE applyPolicyIfNeeded(policies, permission, base, passed)

checkIndexed(userId, permission, scope, policies, passed) ==
  LET base == runCheckIndexed(userId, permission, scope)
  IN IF base.threw THEN PolicyThrown
     ELSE applyPolicyIfNeeded(policies, permission, base, passed)

\* policy configurations
PolicyConfigs ==
  {<<>>,
   <<PolicyEntry(DOCS_READ, "allow")>>,
   <<PolicyEntry(STAR, "allow")>>,
   <<PolicyEntry(DOCS_STAR, "deny"), PolicyEntry(DOCS_READ, "allow")>>,
   <<PolicyEntry(STAR_STAR, NoEffect), PolicyEntry(STAR_READ, "allow")>>}

----------------------------------------------------------------------------
(* C26 *)

\* the policy selected for p has effect allow
AllowPolicyMatches(policies, p) ==
  LET policyMatch == getPolicyForPermission(policies, p)
  IN /\ ~policyMatch.threw
     /\ policyMatch.value # 0
     /\ policies[policyMatch.value].effect = "allow"

\* user u has a row written by denyPermissionDirect that covers (p, s)
DirectDenyApplies(u, p, s) ==
  \E i \in 1..Len(effectivePermissions) :
    /\ effectivePermissions[i].userId = u
    /\ effectivePermissions[i].effect = "deny"
    /\ effectivePermissions[i].directDeny
    /\ PatternCovers(p, effectivePermissions[i].permission)
    /\ effectivePermissions[i].scopeKey \in CandidateKeys(s)

\* C26: an allow-effect policy never overrides an explicit denial: when the
\* user's permission is denied by a deny override (denyPermission in the
\* standard client, denyPermissionDirect in the indexed client), check() with
\* a matching allow-effect policy whose condition passes still returns
\* allowed = false, and the condition is not what decides the result.
C26_AllowPolicyKeepsDenial ==
  \A u \in Users, s \in QueryScopes, policies \in PolicyConfigs :
    \A p \in {q \in QueryPermissions : WellFormed(q)} :
      AllowPolicyMatches(policies, p) =>
        /\ OverrideApplies("deny", u, p, s) =>
             \A m \in RoleMaps, passed \in BOOLEAN :
               LET r == check(u, p, s, m, policies, passed)
               IN r.threw \/ (~r.allowed /\ r.policy = NoDecision)
        /\ DirectDenyApplies(u, p, s) =>
             \A passed \in BOOLEAN :
               LET r == checkIndexed(u, p, s, policies, passed)
               IN r.threw \/ (~r.allowed /\ r.policy = NoDecision)

\* the same for the standard client alone
StandardAllowPolicyKeepsDenial ==
  \A u \in Users, s \in QueryScopes, policies \in PolicyConfigs :
    \A p \in {q \in QueryPermissions : WellFormed(q)} :
      (AllowPolicyMatches(policies, p) /\ OverrideApplies("deny", u, p, s)) =>
         \A m \in RoleMaps, passed \in BOOLEAN :
           LET r == check(u, p, s, m, policies, passed)
           IN r.threw \/ (~r.allowed /\ r.policy = NoDecision)

----------------------------------------------------------------------------
(* SpecPolicy: getPolicyForPermission called on its own *)

MaxPolicyKeys == 2

PolicyKeys == {DOCS_READ, DOCS_STAR, STAR_READ, STAR_STAR, STAR, SETTINGS_READ}
PolicyPermissions ==
  {DOCS_READ, DOCS_WRITE, DOCS_STAR, SETTINGS_READ, STAR, INVALID}

\* configurations of up to MaxPolicyKeys distinct keys, in any order
PolicyKeyLists ==
  UNION {{ks \in [1..n -> PolicyKeys] :
            \A i, j \in 1..n : ks[i] = ks[j] => i = j} : n \in 0..MaxPolicyKeys}

PolicyInput(permission, keys) == [phase |-> "input", op |-> "getPolicyForPermission", permission |-> permission, policies |-> [n \in 1..Len(keys) |-> PolicyEntry(keys[n], "allow")], result |-> Returned(0)]

InitPolicy ==
  /\ roleAssignments = <<>>
  /\ permissionOverrides = <<>>
  /\ effectiveRoles = <<>>
  /\ effectivePermissions = <<>>
  /\ now = 1
  /\ roundTrip = Idle
  /\ relationships = <<>>
  /\ traversal = NoTraversal
  /\ auditLog = <<>>
  /\ effectiveRelationships = <<>>
  /\ userAttributes = <<>>
  /\ call \in {PolicyInput(p, ks) : p \in PolicyPermissions,
                                    ks \in PolicyKeyLists}

PolicyCall ==
  /\ call.phase = "input"
  /\ call' = [call EXCEPT
                !.phase = "returned",
                !.result = getPolicyForPermission(call.policies,
                                                  call.permission)]
  /\ UNCHANGED <<stdVars, idxVars, now, roundTrip, newVars,
                 relationships, traversal, auditLog>>

NextPolicy == PolicyCall

SpecPolicy == InitPolicy /\ [][NextPolicy]_vars

----------------------------------------------------------------------------
(* C27 *)

\* 2 for a concrete resource plus 1 for a concrete action; 0 for "*", "*:*"
Specificity(key) ==
  IF key = STAR \/ key = STAR_STAR THEN 0
  ELSE (IF Split(key)[1] = STAR THEN 0 ELSE 2)
         + (IF Split(key)[2] = STAR THEN 0 ELSE 1)

\* the selection the claim describes, for a call that returned `found`
SelectedBySpecificity(policies, p, found) ==
  LET exact == {n \in 1..Len(policies) : policies[n].key = p}
      matching == {n \in 1..Len(policies) : PatternCovers(p, policies[n].key)}
  IN IF exact # {} THEN found \in exact
     ELSE IF matching = {} THEN found = 0
     ELSE /\ found \in matching
          /\ \A n \in matching :
               Specificity(policies[found].key) >= Specificity(policies[n].key)

\* C27: for a permission p, getPolicyForPermission returns the policy keyed
\* exactly p if one is configured; otherwise, among the keys that match p by
\* matchesPermissionPattern, one with the maximal score, where the score is 2
\* for a concrete resource plus 1 for a concrete action and 0 for "*" and
\* "*:*"; it returns none when no key matches.
C27_PolicySpecificity ==
  (call.phase = "returned" /\ call.op = "getPolicyForPermission") =>
    /\ ~call.result.threw
    /\ SelectedBySpecificity(call.policies, call.permission, call.result.value)

\* the same with a raised call counted as no answer
SpecificityUnlessRaised ==
  (call.phase = "returned" /\ call.op = "getPolicyForPermission") =>
    \/ call.result.threw
    \/ SelectedBySpecificity(call.policies, call.permission, call.result.value)

----------------------------------------------------------------------------
(* C28 *)

\* the orderings of n rows
Orderings(n) == {f \in [1..n -> 1..n] : \A i, j \in 1..n : f[i] = f[j] => i = j}
Reordered(table, f) == [i \in 1..Len(table) |-> table[f[i]]]

\* the override rows of user u, in table order
OverridesOf(u) == SelectSeq(permissionOverrides, LAMBDA o : o.userId = u)

\* C28: override evaluation is order-independent: the allowed decision
\* returned by checkOverrides and by checkPermission is the same for every
\* ordering of the user's override rows and role assignments.
C28_OrderIndependent ==
  \A u \in Users, p \in QueryPermissions, s \in QueryScopes :
    /\ \A f \in Orderings(Len(OverridesOf(u))) :
         checkOverrides(Reordered(OverridesOf(u), f), p, s)
           = checkOverrides(OverridesOf(u), p, s)
    /\ \A m \in RoleMaps :
         \A f \in Orderings(Len(permissionOverrides)),
            g \in Orderings(Len(roleAssignments)) :
           LET stored == checkPermission(u, p, s, m)
               reordered ==
                 checkPermissionOn(Reordered(permissionOverrides, f),
                                   Reordered(roleAssignments, g), u, p, s, m)
           IN /\ reordered.threw = stored.threw
              /\ reordered.allowed = stored.allowed

\* the same with a raised call counted as no answer
OrderIndependentUnlessRaised ==
  \A u \in Users, p \in QueryPermissions, s \in QueryScopes :
    /\ \A f \in Orderings(Len(OverridesOf(u))) :
         LET stored == checkOverrides(OverridesOf(u), p, s)
             reordered == checkOverrides(Reordered(OverridesOf(u), f), p, s)
         IN stored.threw \/ reordered.threw \/ reordered = stored
    /\ \A m \in RoleMaps :
         \A f \in Orderings(Len(permissionOverrides)),
            g \in Orderings(Len(roleAssignments)) :
           LET stored == checkPermission(u, p, s, m)
               reordered ==
                 checkPermissionOn(Reordered(permissionOverrides, f),
                                   Reordered(roleAssignments, g), u, p, s, m)
           IN stored.threw \/ reordered.threw
                \/ reordered.allowed = stored.allowed

----------------------------------------------------------------------------
(* SpecAudit: every mutation of mutations.ts that can write the audit log,  *)
(* the two sweeps and the clock; call holds the last call and its result    *)

\* most auditLog rows stored
MaxLogRows == 2
\* most rows stored in each of roleAssignments, permissionOverrides and
\* userAttributes
MaxAuditedRows == 1

\* the clock of this specification stops at MaxAuditTime
MaxAuditTime == 2
\* expiresAt arguments: absent, or a timestamp the clock passes
AuditExpiry == {NoExpiry, 1}

AuditCall(op, userId, enableAudit, result) == [phase |-> "returned", op |-> op, userId |-> userId, enableAudit |-> enableAudit, result |-> result]

AuditFits ==
  /\ Len(auditLog') <= MaxLogRows
  /\ Len(roleAssignments') <= MaxAuditedRows
  /\ Len(permissionOverrides') <= MaxAuditedRows
  /\ Len(userAttributes') <= MaxAuditedRows

AuditAssign ==
  /\ \E expiresAt \in AuditExpiry, enableAudit \in BOOLEAN :
       /\ assignRole("alice", "admin", NoScope, expiresAt, "root", enableAudit)
       /\ call' = AuditCall("assignRole", "alice", enableAudit,
                            assignRoleResult("alice", "admin", NoScope))
  /\ UNCHANGED <<idxVars, now, roundTrip, newVars, relationships, traversal>>
  /\ AuditFits

AuditRevoke ==
  /\ \E enableAudit \in BOOLEAN :
       /\ revokeRole("alice", "admin", NoScope, "root", enableAudit)
       /\ call' = AuditCall("revokeRole", "alice", enableAudit,
                            revokeRoleResult("alice", "admin", NoScope))
  /\ UNCHANGED <<idxVars, now, roundTrip, newVars, relationships, traversal>>
  /\ AuditFits

AuditRevokeAll ==
  /\ \E enableAudit \in {TRUE} :
       /\ revokeAllRoles("alice", NoScope, "root", enableAudit)
       /\ call' = AuditCall("revokeAllRoles", "alice", enableAudit,
                            revokeAllRolesResult("alice", NoScope))
  /\ UNCHANGED <<idxVars, now, roundTrip, newVars, relationships, traversal>>
  /\ AuditFits

AuditGrant ==
  /\ \E enableAudit \in {TRUE} :
       /\ grantPermission("alice", DOCS_READ, NoScope, NoExpiry, NoReason,
                          "root", enableAudit)
       /\ call' = AuditCall("grantPermission", "alice", enableAudit,
                            writeOverrideResult("alice", DOCS_READ, NoScope))
  /\ UNCHANGED <<idxVars, now, roundTrip, newVars, relationships, traversal>>
  /\ AuditFits

AuditDeny ==
  /\ \E expiresAt \in {NoExpiry}, enableAudit \in {TRUE} :
       /\ denyPermission("alice", DOCS_READ, NoScope, expiresAt, NoReason,
                         "root", enableAudit)
       /\ call' = AuditCall("denyPermission", "alice", enableAudit,
                            writeOverrideResult("alice", DOCS_READ, NoScope))
  /\ UNCHANGED <<idxVars, now, roundTrip, newVars, relationships, traversal>>
  /\ AuditFits

AuditRemoveOverride ==
  /\ \E enableAudit \in {TRUE} :
       /\ removePermissionOverride("alice", DOCS_READ, NoScope, "root",
                                   enableAudit)
       /\ call' = AuditCall("removePermissionOverride", "alice", enableAudit,
                            removePermissionOverrideResult("alice", DOCS_READ,
                                                           NoScope))
  /\ UNCHANGED <<idxVars, now, roundTrip, newVars, relationships, traversal>>
  /\ AuditFits

AuditSetAttribute ==
  /\ \E userId \in {"bob"}, enableAudit \in BOOLEAN :
       /\ setAttribute(userId, "dept", "eng", "root", enableAudit)
       /\ call' = AuditCall("setAttribute", userId, enableAudit,
                            setAttributeResult(userId, "dept"))
  /\ UNCHANGED <<stdVars, idxVars, now, roundTrip, effectiveRelationships,
                 relationships, traversal>>
  /\ AuditFits

AuditRemoveAttribute ==
  /\ \E userId \in {"bob"}, enableAudit \in BOOLEAN :
       /\ removeAttribute(userId, "dept", "root", enableAudit)
       /\ call' = AuditCall("removeAttribute", userId, enableAudit,
                            removeAttributeResult(userId, "dept"))
  /\ UNCHANGED <<stdVars, idxVars, now, roundTrip, effectiveRelationships,
                 relationships, traversal>>
  /\ AuditFits

AuditRemoveAllAttributes ==
  /\ \E enableAudit \in {TRUE} :
       /\ removeAllAttributes("bob", "root", enableAudit)
       /\ call' = AuditCall("removeAllAttributes", "bob", enableAudit,
                            removeAllAttributesResult("bob"))
  /\ UNCHANGED <<stdVars, idxVars, now, roundTrip, effectiveRelationships,
                 relationships, traversal>>
  /\ AuditFits

AuditLogCheck ==
  /\ \E result \in {TRUE} :
       /\ logPermissionCheck("alice", DOCS_READ, result, NoScope, NoReason)
       /\ call' = AuditCall("logPermissionCheck", "alice", TRUE, Returned(0))
  /\ UNCHANGED <<stdVars, idxVars, now, roundTrip, newVars, relationships,
                 traversal>>
  /\ AuditFits

AuditAssignWithCompute ==
  /\ assignRoleWithCompute("alice", "viewer", RoleMapPlain["viewer"], NoScope, 1)
  /\ IdxFits
  /\ call' = AuditCall("assignRoleWithCompute", "alice", FALSE, Returned(0))
  /\ UNCHANGED <<stdVars, now, roundTrip, newVars, relationships, traversal,
                 auditLog>>

AuditCleanup ==
  /\ cleanupExpired
  /\ call' = AuditCall("cleanupExpired", "", FALSE, cleanupExpiredResult)
  /\ UNCHANGED <<idxVars, now, roundTrip, newVars, relationships, traversal>>

AuditCleanupIndexed ==
  /\ cleanupExpiredIndexed
  /\ call' = AuditCall("cleanupExpiredIndexed", "", FALSE,
                       Returned(Len(effectiveRoles) - Len(effectiveRoles')))
  /\ UNCHANGED <<stdVars, now, roundTrip, newVars, relationships, traversal,
                 auditLog>>

AuditTick ==
  /\ now < MaxAuditTime
  /\ Tick
  /\ call' = NoCall
  /\ UNCHANGED <<stdVars, idxVars, roundTrip, newVars, relationships, traversal,
                 auditLog>>

NextAudit ==
  \/ AuditAssign
  \/ AuditRevoke
  \/ AuditRevokeAll
  \/ AuditGrant
  \/ AuditDeny
  \/ AuditRemoveOverride
  \/ AuditSetAttribute
  \/ AuditRemoveAttribute
  \/ AuditRemoveAllAttributes
  \/ AuditLogCheck
  \/ AuditAssignWithCompute
  \/ AuditCleanup
  \/ AuditCleanupIndexed
  \/ AuditTick

SpecAudit == Init /\ [][NextAudit]_vars

----------------------------------------------------------------------------
(* C29 *)

\* every audit row is still there, in its place and as it was written
AppendOnly ==
  /\ Len(auditLog') >= Len(auditLog)
  /\ \A i \in 1..Len(auditLog) : auditLog'[i] = auditLog[i]

\* C29: the audit log is append-only: no operation, including both
\* cleanupExpired sweeps and every revoke/remove mutation, patches or deletes
\* an auditLog row, so the set of audit rows only grows along every execution.
C29_AuditAppendOnly == [][AppendOnly]_vars

\* a sweep deleted an expired assignment whose audit row, written before the
\* sweep's time, is still in the log
C29_Witness ==
  /\ call.phase = "returned"
  /\ call.op = "cleanupExpired"
  /\ call.result.value.expiredRoles + call.result.value.expiredOverrides > 0
  /\ \E i \in 1..Len(auditLog) :
       /\ auditLog[i].timestamp < now
       /\ auditLog[i].action \in {"role_assigned", "permission_denied"}

----------------------------------------------------------------------------
(* C30 *)

\* the action each audited mutation logs
AuditedAction(op) ==
  CASE op = "assignRole" -> "role_assigned"
    [] op = "revokeRole" -> "role_revoked"
    [] op = "grantPermission" -> "permission_granted"
    [] op = "denyPermission" -> "permission_denied"
    [] op = "setAttribute" -> "attribute_set"
    [] op = "removeAttribute" -> "attribute_removed"

AuditedOps == {"assignRole", "revokeRole", "grantPermission", "denyPermission", "setAttribute", "removeAttribute"}

\* the call neither failed nor reported that it changed nothing
Succeeded(c) ==
  CASE c.op = "assignRole" -> ~c.result.threw
    [] c.op \in {"revokeRole", "removeAttribute"} -> c.result.value = TRUE
    [] OTHER -> ~c.result.threw

AuditedStep ==
  (call'.phase = "returned" /\ call'.op \in AuditedOps /\ call'.enableAudit) =>
    IF Succeeded(call')
    THEN /\ Len(auditLog') = Len(auditLog) + 1
         /\ \A i \in 1..Len(auditLog) : auditLog'[i] = auditLog[i]
         /\ auditLog'[Len(auditLog')].userId = call'.userId
         /\ auditLog'[Len(auditLog')].action = AuditedAction(call'.op)
         /\ auditLog'[Len(auditLog')].timestamp = now
    ELSE auditLog' = auditLog

\* C30: with enableAudit = true, each successful assignRole, revokeRole,
\* grantPermission, denyPermission, setAttribute and removeAttribute appends
\* exactly one auditLog entry for the target user with the corresponding
\* action (role_assigned, role_revoked, permission_granted, permission_denied,
\* attribute_set, attribute_removed); a call that fails (duplicate assignRole)
\* or changes nothing (revokeRole or removeAttribute returning false) appends
\* none.
C30_AuditOnEveryChange == [][AuditedStep]_vars

\* an audited removeAttribute of bob's attribute left its entry in the log
C30_Witness ==
  /\ call.phase = "returned"
  /\ call.op = "removeAttribute"
  /\ call.enableAudit
  /\ call.result = Returned(TRUE)
  /\ Len(auditLog) >= 1
  /\ auditLog[Len(auditLog)].action = "attribute_removed"
  /\ auditLog[Len(auditLog)].userId = "bob"

\* an audited assignRole of a role already held failed and logged nothing
C30_WitnessDuplicate ==
  /\ call.phase = "returned"
  /\ call.op = "assignRole"
  /\ call.enableAudit
  /\ call.result.threw
  /\ auditLog = <<>>

----------------------------------------------------------------------------
(* SpecConc: batches of concurrent assignRoleWithCompute and                *)
(* revokeRoleWithCompute calls.  The datastore runs each mutation as one    *)
(* transaction, so a call is one step, taken in any order within its batch. *)
(* call holds the batch: its calls, the tables when it was issued, and the  *)
(* positions of the calls that have run                                      *)

\* most calls in a batch
MaxBatch == 3

\* the two derived indexes, as a transaction sees them
IndexTables(roles, perms) == [roles |-> roles, perms |-> perms]

\* assignRoleWithCompute over the tables it is given
assignRoleWithComputeOn(tables, userId, role, rolePermissions, scope, expiresAt) ==
  LET scopeKey == scopeKeyOf(scope)
      existing == roleRows(tables.roles, userId, role, scopeKey)
      roles == IF existing # <<>>
               THEN PatchAt(tables.roles, existing[1],
                            [tables.roles[existing[1]]
                               EXCEPT !.expiresAt = expiresAt])
               ELSE Append(tables.roles,
                           EffectiveRoleRow(userId, role, scopeKey, expiresAt))
      perms == assignLoop(tables.perms, userId, role, rolePermissions,
                          scopeKey, expiresAt, 1)
  IN IF Len(existing) > 1 \/ perms.threw THEN tables
     ELSE IndexTables(roles, perms.table)

\* revokeRoleWithCompute over the tables it is given
revokeRoleWithComputeOn(tables, userId, role, rolePermissions, scope) ==
  LET scopeKey == scopeKeyOf(scope)
      existing == roleRows(tables.roles, userId, role, scopeKey)
      perms == revokeLoop(tables.perms, userId, role, rolePermissions,
                          scopeKey, 1)
  IN IF Len(existing) > 1 \/ existing = <<>> \/ perms.threw THEN tables
     ELSE IndexTables(DeleteAt(tables.roles, existing[1]), perms.table)

IndexedCall(op, userId, role, scope) == [op |-> op, userId |-> userId, role |-> role, scope |-> scope]

\* one call of a batch, run on the tables it reads; each role is passed its
\* RoleMapPlain list
runIndexedCall(tables, c) ==
  IF c.op = "assignRoleWithCompute"
  THEN assignRoleWithComputeOn(tables, c.userId, c.role, RoleMapPlain[c.role],
                               c.scope, NoExpiry)
  ELSE revokeRoleWithComputeOn(tables, c.userId, c.role, RoleMapPlain[c.role],
                               c.scope)

\* fault: a call works on the tables as they were when the batch was issued
\* and writes its result over what the others committed
txnViewStale(current, start) == start

\* the tables a transaction reads: the committed ones at the time it runs
txnView(current, start) == current

ConcCalls ==
  {IndexedCall(op, "alice", role, NoScope) :
     op \in {"assignRoleWithCompute", "revokeRoleWithCompute"}, role \in Roles}

Batches == UNION {[1..n -> ConcCalls] : n \in 1..MaxBatch}

Batch(calls, start, done) == [phase |-> "batch", calls |-> calls, start |-> start, done |-> done]

\* no batch is in flight
Settled == IF call.phase = "none" THEN TRUE ELSE call.done = DOMAIN call.calls

ConcIssue ==
  /\ Settled
  /\ \E calls \in Batches :
       call' = Batch(calls, IndexTables(effectiveRoles, effectivePermissions),
                     {})
  /\ UNCHANGED <<stdVars, idxVars, now, roundTrip, newVars, relationships,
                 traversal, auditLog>>

ConcRun ==
  /\ call.phase = "batch"
  /\ \E i \in DOMAIN call.calls \ call.done :
       LET out == runIndexedCall(
                    txnView(IndexTables(effectiveRoles, effectivePermissions),
                            call.start),
                    call.calls[i])
       IN /\ effectiveRoles' = out.roles
          /\ effectivePermissions' = out.perms
          /\ call' = [call EXCEPT !.done = @ \cup {i}]
  /\ UNCHANGED <<stdVars, now, roundTrip, newVars, relationships, traversal,
                 auditLog>>

NextConc == ConcIssue \/ ConcRun

SpecConc == Init /\ [][NextConc]_vars

----------------------------------------------------------------------------
(* C31 *)

\* the tables after the calls ran one after another in the order f
RECURSIVE SerialRun(_, _, _, _)
SerialRun(tables, calls, f, k) ==
  IF k > Len(calls) THEN tables
  ELSE SerialRun(runIndexedCall(tables, calls[f[k]]), calls, f, k + 1)

\* the batch is made of assigns only, and two of them, of different roles,
\* both grant p to u at scope s
TwoAssignsGranting(calls, u, p, s) ==
  /\ \A i \in DOMAIN calls : calls[i].op = "assignRoleWithCompute"
  /\ \E i, j \in DOMAIN calls :
       /\ calls[i].role # calls[j].role
       /\ \A k \in {i, j} :
            /\ calls[k].userId = u
            /\ calls[k].scope = s
            /\ \E n \in 1..Len(RoleMapPlain[calls[k].role]) :
                 RoleMapPlain[calls[k].role][n] = p

\* every role of the batch that grants p to u at s is a source of the row
AllInSources(calls, u, p, s) ==
  \A i \in DOMAIN calls :
    (/\ calls[i].userId = u
     /\ calls[i].scope = s
     /\ \E n \in 1..Len(RoleMapPlain[calls[i].role]) :
          RoleMapPlain[calls[i].role][n] = p) =>
      \E r \in 1..Len(effectivePermissions) :
        /\ effectivePermissions[r].userId = u
        /\ effectivePermissions[r].permission = p
        /\ effectivePermissions[r].scopeKey = scopeKeyOf(s)
        /\ \E n \in 1..Len(effectivePermissions[r].sources) :
             effectivePermissions[r].sources[n] = calls[i].role

----------------------------------------------------------------------------
(* SpecDirect: grantPermissionDirect and denyPermissionDirect beside the    *)
(* role mutations of the index; call holds the last call                    *)

DirectCall(op, userId, permission, scope, expiresAt) == [phase |-> "returned", op |-> op, userId |-> userId, permission |-> permission, scope |-> scope, expiresAt |-> expiresAt]

DirectArgs == {"alice"} \X {DOCS_READ} \X StoredScopes \X ExpiryValues

DirectAssign ==
  /\ \E role \in Roles :
       assignRoleWithCompute("alice", role, RoleMapPlain[role], NoScope,
                             NoExpiry)
  /\ IdxFits
  /\ call' = NoCall
  /\ UNCHANGED <<stdVars, now, roundTrip, newVars, relationships, traversal,
                 auditLog>>

DirectRevoke ==
  /\ \E role \in Roles :
       revokeRoleWithCompute("alice", role, RoleMapPlain[role], NoScope)
  /\ call' = NoCall
  /\ UNCHANGED <<stdVars, now, roundTrip, newVars, relationships, traversal,
                 auditLog>>

DirectGrant ==
  /\ \E c \in DirectArgs :
       /\ grantPermissionDirect(c[1], c[2], c[3], c[4])
       /\ call' = DirectCall("grantPermissionDirect", c[1], c[2], c[3], c[4])
  /\ IdxFits
  /\ UNCHANGED <<stdVars, now, roundTrip, newVars, relationships, traversal,
                 auditLog>>

DirectDeny ==
  /\ \E c \in DirectArgs :
       /\ denyPermissionDirect(c[1], c[2], c[3], c[4])
       /\ call' = DirectCall("denyPermissionDirect", c[1], c[2], c[3], c[4])
  /\ IdxFits
  /\ UNCHANGED <<stdVars, now, roundTrip, newVars, relationships, traversal,
                 auditLog>>

NextDirect == DirectAssign \/ DirectRevoke \/ DirectGrant \/ DirectDeny

SpecDirect == Init /\ [][NextDirect]_vars

----------------------------------------------------------------------------
(* C32 *)

\* the rows of the (userId, permission, scopeKey) a direct call names
KeyedRows(table, c) ==
  {n \in 1..Len(table) :
     /\ table[n].userId = c.userId
     /\ table[n].permission = c.permission
     /\ table[n].scopeKey = scopeKeyOf(c.scope)}

\* the row carries what the direct call writes
DirectlyWritten(row, c) ==
  /\ row.userId = c.userId
  /\ row.permission = c.permission
  /\ row.scopeKey = scopeKeyOf(c.scope)
  /\ row.expiresAt = c.expiresAt
  /\ IF c.op = "grantPermissionDirect"
     THEN row.effect = "allow" /\ row.directGrant
     ELSE row.effect = "deny" /\ row.directDeny

DirectStep ==
  (/\ call'.phase = "returned"
   /\ call'.op \in {"grantPermissionDirect", "denyPermissionDirect"}) =>
    /\ effectiveRoles' = effectiveRoles
    /\ IF KeyedRows(effectivePermissions, call') # {}
       THEN /\ Len(effectivePermissions') = Len(effectivePermissions)
            /\ \A n \in 1..Len(effectivePermissions) :
                 IF n \in KeyedRows(effectivePermissions, call')
                 THEN /\ DirectlyWritten(effectivePermissions'[n], call')
                      /\ effectivePermissions'[n].sources
                           = effectivePermissions[n].sources
                      /\ IF call'.op = "grantPermissionDirect"
                         THEN effectivePermissions'[n].directDeny
                                = effectivePermissions[n].directDeny
                         ELSE effectivePermissions'[n].directGrant
                                = effectivePermissions[n].directGrant
                 ELSE effectivePermissions'[n] = effectivePermissions[n]
       ELSE /\ Len(effectivePermissions') = Len(effectivePermissions) + 1
            /\ \A n \in 1..Len(effectivePermissions) :
                 effectivePermissions'[n] = effectivePermissions[n]
            /\ DirectlyWritten(effectivePermissions'[Len(effectivePermissions')],
                               call')
            /\ effectivePermissions'[Len(effectivePermissions')].sources = <<>>

\* C32: grantPermissionDirect and denyPermissionDirect are independent of
\* role bookkeeping: applied to an existing EffectivePermission row they
\* change only effect, the direct flag, reason and expiresAt, leaving sources
\* unchanged, and they never touch effectiveRoles or any row with a different
\* (userId, permission, scopeKey); the last of the two calls on a key decides
\* the row's effect.
C32_DirectIndependent == [][DirectStep]_vars

\* a deny has been written over a row that a role sources and that was
\* granted directly before: the row denies and still names the role
C32_Witness ==
  /\ call.phase = "returned"
  /\ call.op = "denyPermissionDirect"
  /\ \E n \in KeyedRows(effectivePermissions, call) :
       /\ effectivePermissions[n].effect = "deny"
       /\ effectivePermissions[n].directGrant
       /\ effectivePermissions[n].directDeny
       /\ effectivePermissions[n].sources # <<>>
  /\ Len(effectivePermissions) >= 2
  /\ effectiveRoles # <<>>

----------------------------------------------------------------------------
(* SpecSweep: both strategies with expiry, the clock and the two            *)
(* cleanupExpired sweeps; call holds the last sweep and the rows it counted *)

\* most rows of roleAssignments and permissionOverrides together, and of
\* effectiveRoles and effectivePermissions together
MaxSweepRows == 2

SweepCall(op, result) == [phase |-> "returned", op |-> op, result |-> result]

SweepFits ==
  /\ Len(roleAssignments') + Len(permissionOverrides') <= MaxSweepRows
  /\ Len(effectiveRoles') + Len(effectivePermissions') <= MaxSweepRows

SweepRoleCalls == {"alice"} \X {"viewer"} \X StoredScopes \X ExpiryValues
SweepOverrideCalls == {"alice"} \X {DOCS_READ, INVALID} \X {NoScope} \X ExpiryValues

SweepAssign ==
  /\ \E c \in SweepRoleCalls :
       assignRole(c[1], c[2], c[3], c[4], NoActor, FALSE)
  /\ call' = NoCall
  /\ UNCHANGED <<idxVars, now, roundTrip, newVars, relationships, traversal>>
  /\ SweepFits

SweepOverride ==
  /\ \E c \in SweepOverrideCalls, effect \in Effects :
       writeOverride(effect, c[1], c[2], c[3], c[4], NoReason, NoActor, FALSE)
  /\ call' = NoCall
  /\ UNCHANGED <<idxVars, now, roundTrip, newVars, relationships, traversal>>
  /\ SweepFits

SweepAssignWithCompute ==
  /\ \E c \in SweepRoleCalls :
       assignRoleWithCompute(c[1], c[2], RoleMapPlain[c[2]], c[3], c[4])
  /\ call' = NoCall
  /\ UNCHANGED <<stdVars, now, roundTrip, newVars, relationships, traversal,
                 auditLog>>
  /\ SweepFits

SweepDirect ==
  /\ \E effect \in Effects, expiresAt \in ExpiryValues :
       writeDirect(effect, "alice", DOCS_READ, NoScope, expiresAt)
  /\ call' = NoCall
  /\ UNCHANGED <<stdVars, now, roundTrip, newVars, relationships, traversal,
                 auditLog>>
  /\ SweepFits

SweepCleanup ==
  /\ cleanupExpired
  /\ call' = SweepCall("cleanupExpired",
                       cleanupExpiredResult.value.expiredRoles
                         + cleanupExpiredResult.value.expiredOverrides)
  /\ UNCHANGED <<idxVars, now, roundTrip, newVars, relationships, traversal>>

SweepCleanupIndexed ==
  /\ cleanupExpiredIndexed
  /\ call' = SweepCall("cleanupExpiredIndexed",
                       (Len(effectivePermissions) - Len(effectivePermissions'))
                         + (Len(effectiveRoles) - Len(effectiveRoles')))
  /\ UNCHANGED <<stdVars, now, roundTrip, newVars, relationships, traversal,
                 auditLog>>

SweepTick ==
  /\ Tick
  /\ call' = NoCall
  /\ UNCHANGED <<stdVars, idxVars, roundTrip, newVars, relationships, traversal,
                 auditLog>>

NextSweep ==
  \/ SweepAssign
  \/ SweepOverride
  \/ SweepAssignWithCompute
  \/ SweepDirect
  \/ SweepCleanup
  \/ SweepCleanupIndexed
  \/ SweepTick

SpecSweep == Init /\ [][NextSweep]_vars

----------------------------------------------------------------------------
(* C33 *)

\* the table without the rows whose expiresAt is set and earlier than now
SweptRows(table) ==
  SelectSeq(table, LAMBDA row : ~(row.expiresAt # NoExpiry
                                  /\ row.expiresAt < now))

\* a sweep deletes the expired rows of its two tables and nothing else
SweepExact ==
  /\ (call'.phase = "returned" /\ call'.op = "cleanupExpired") =>
       /\ roleAssignments' = SweptRows(roleAssignments)
       /\ permissionOverrides' = SweptRows(permissionOverrides)
       /\ UNCHANGED idxVars
  /\ (call'.phase = "returned" /\ call'.op = "cleanupExpiredIndexed") =>
       /\ effectiveRoles' = SweptRows(effectiveRoles)
       /\ effectivePermissions' = SweptRows(effectivePermissions)
       /\ UNCHANGED stdVars

\* the override a check reports, as the row it names
MatchedRow(table, result) ==
  IF result.matchedOverride = NoOverride THEN <<>>
  ELSE <<table[result.matchedOverride]>>

\* every query answers on the swept tables as it answers on the stored ones
SweepKeepsAnswers ==
  \A u \in Users, s \in QueryScopes :
    /\ \A r \in Roles :
         /\ hasRoleOn(SweptRows(roleAssignments), u, r, s) = hasRole(u, r, s)
         /\ hasRoleFastOn(SweptRows(effectiveRoles), u, r, ObjectType(s),
                          ObjectId(s))
              = hasRoleFast(u, r, ObjectType(s), ObjectId(s))
    /\ \A p \in QueryPermissions :
         /\ checkPermissionFastOn(SweptRows(effectivePermissions), u, p,
                                  ObjectType(s), ObjectId(s))
              = checkPermissionFast(u, p, ObjectType(s), ObjectId(s))
         /\ \A m \in RoleMaps :
              LET stored == checkPermission(u, p, s, m)
                  swept == checkPermissionOn(SweptRows(permissionOverrides),
                                             SweptRows(roleAssignments),
                                             u, p, s, m)
              IN /\ swept.threw = stored.threw
                 /\ swept.allowed = stored.allowed
                 /\ swept.matchedRole = stored.matchedRole
                 /\ MatchedRow(SweptRows(permissionOverrides), swept)
                      = MatchedRow(permissionOverrides, stored)

\* C33: cleanupExpired changes no answer: the two sweeps delete exactly the
\* rows of roleAssignments, permissionOverrides, effectivePermissions and
\* effectiveRoles whose expiresAt is set and earlier than the current time
\* and no other row, and the results of hasRole, checkPermission, hasRoleFast
\* and checkPermissionFast for every argument are the same immediately before
\* and immediately after a sweep.
C33_SweepChangesNoAnswer == []SweepKeepsAnswers /\ [][SweepExact]_vars

\* the standard sweep deleted an expired row and left a live one
C33_Witness ==
  /\ call.phase = "returned"
  /\ call.op = "cleanupExpired"
  /\ call.result > 0
  /\ Len(roleAssignments) + Len(permissionOverrides) > 0

\* the indexed sweep deleted an expired row and left a live one
C33_WitnessIndexed ==
  /\ call.phase = "returned"
  /\ call.op = "cleanupExpiredIndexed"
  /\ call.result > 0
  /\ Len(effectiveRoles) + Len(effectivePermissions) > 0

----------------------------------------------------------------------------
(* SpecRevoke: revokeRoleWithCompute called with any permission list, on    *)
(* roles the user holds and on roles the user does not hold                 *)

RevokeCall(userId, role, rolePermissions, scope, result) == [phase |-> "returned", op |-> "revokeRoleWithCompute", userId |-> userId, role |-> role, rolePermissions |-> rolePermissions, scope |-> scope, result |-> result]

\* the lists a revocation passes: the role's own list or any other
RevokeLists == {<<>>, <<DOCS_READ>>, <<DOCS_STAR>>, <<DOCS_READ, DOCS_STAR>>}

\* most rows of effectivePermissions
MaxRevokeRows == 2

RevokeFits ==
  /\ Len(effectiveRoles') <= MaxEffectiveRoles
  /\ Len(effectivePermissions') <= MaxRevokeRows

RevokeAssign ==
  /\ \E role \in Roles, scope \in StoredScopes :
       assignRoleWithCompute("alice", role, RoleMapPlain[role], scope, NoExpiry)
  /\ call' = NoCall
  /\ RevokeFits
  /\ UNCHANGED <<stdVars, now, roundTrip, newVars, relationships, traversal,
                 auditLog>>

RevokeDirect ==
  /\ \E effect \in Effects, scope \in StoredScopes :
       writeDirect(effect, "alice", DOCS_STAR, scope, NoExpiry)
  /\ call' = NoCall
  /\ RevokeFits
  /\ UNCHANGED <<stdVars, now, roundTrip, newVars, relationships, traversal,
                 auditLog>>

RevokeRevoke ==
  /\ \E role \in Roles, rolePermissions \in RevokeLists,
        scope \in StoredScopes :
       /\ revokeRoleWithCompute("alice", role, rolePermissions, scope)
       /\ call' = RevokeCall("alice", role, rolePermissions, scope,
                             revokeRoleWithComputeResult("alice", role,
                                                         rolePermissions,
                                                         scope))
  /\ UNCHANGED <<stdVars, now, roundTrip, newVars, relationships, traversal,
                 auditLog>>

NextRevoke ==
  \/ RevokeAssign
  \/ RevokeDirect
  \/ RevokeRevoke

SpecRevoke == Init /\ [][NextRevoke]_vars

----------------------------------------------------------------------------
(* C34 *)

\* the user holds the role at exactly that scope key
HoldsRoleAt(table, userId, role, scope) ==
  \E n \in 1..Len(table) :
    /\ table[n].userId = userId
    /\ table[n].role = role
    /\ table[n].scopeKey = scopeKeyOf(scope)

\* a revocation of a role that was not held answers false and writes nothing
RevokeUnheldStep ==
  (/\ call'.phase = "returned"
   /\ ~HoldsRoleAt(effectiveRoles, call'.userId, call'.role, call'.scope))
  => /\ call'.result = Returned(FALSE)
     /\ UNCHANGED idxVars

\* C34: revokeRoleWithCompute on a role the user does not hold at that
\* scopeKey returns false and leaves effectiveRoles and effectivePermissions
\* unchanged, whatever permission list is passed; permissions sourced by other
\* roles or granted directly are not removed by revoking a role that was
\* never assigned.
C34_RevokeUnheldIsNoOp == [][RevokeUnheldStep]_vars

\* an unheld role was revoked with a list naming a permission that another
\* role sources, and one that was only granted directly
C34_Witness ==
  /\ call.phase = "returned"
  /\ call.result = Returned(FALSE)
  /\ ~HoldsRoleAt(effectiveRoles, call.userId, call.role, call.scope)
  /\ \E n, m \in 1..Len(effectivePermissions) :
       LET sourced == effectivePermissions[n]
           direct == effectivePermissions[m]
       IN /\ sourced.scopeKey = scopeKeyOf(call.scope)
          /\ direct.scopeKey = scopeKeyOf(call.scope)
          /\ Includes(call.rolePermissions, sourced.permission)
          /\ Includes(call.rolePermissions, direct.permission)
          /\ sourced.sources # <<>>
          /\ ~Includes(sourced.sources, call.role)
          /\ direct.sources = <<>>
          /\ direct.directGrant

----------------------------------------------------------------------------
(* C35 *)

\* user u holds, unexpired, at scope s or globally, a role whose assignment
\* listed permission p
LiveRoleListing(u, p, s) ==
  \E i \in 1..Len(effectiveRoles) :
    /\ effectiveRoles[i].userId = u
    /\ effectiveRoles[i].scopeKey \in CandidateKeys(s)
    /\ Live(effectiveRoles[i].expiresAt)
    /\ Includes(RoleMapPlain[effectiveRoles[i].role], p)

\* an unexpired deny row of u applies to (p, s)
LiveDenyRow(u, p, s) ==
  \E i \in 1..Len(effectivePermissions) :
    /\ effectivePermissions[i].userId = u
    /\ effectivePermissions[i].effect = "deny"
    /\ effectivePermissions[i].permission \in ScannedCandidates(p)
    /\ effectivePermissions[i].scopeKey \in CandidateKeys(s)
    /\ Live(effectivePermissions[i].expiresAt)

\* C35: each contributor's expiry is independent: checkPermissionFast(u, p, s)
\* is true whenever u currently holds at least one non-expired role that was
\* assigned with a list containing p at scope s or globally and no non-expired
\* deny row applies, irrespective of the expiresAt of other roles that sourced
\* the same row earlier and of direct grants or denies on that row that have
\* since expired.
C35_IndependentExpiry ==
  \A u \in Users, p \in QueryPermissions, s \in QueryScopes :
    (LiveRoleListing(u, p, s) /\ ~LiveDenyRow(u, p, s))
      => checkPermissionFast(u, p, ObjectType(s), ObjectId(s))
           = Returned(TRUE)

----------------------------------------------------------------------------
(* SpecRelLog: the relationship mutations of the indexed strategy, where    *)
(* call keeps, besides the last call, the triples the callers added and did *)
(* not remove since, and which added triple derived which                   *)

LogTriples ==
  { <<USER_ALICE, "viewer", DOC_1>>, <<USER_ALICE, "viewer", DOC_2>>,
    <<USER_ALICE, "viewer", FOLDER_1>>,
    <<DOC_1, "parent", FOLDER_1>>, <<DOC_2, "parent", FOLDER_1>> }

LogLists == {<<>>, <<InheritedRelation("viewer", "folder", "parent")>>}

LogCall(op, triple, added, supports) == [phase |-> "returned", op |-> op, triple |-> triple, added |-> added, supports |-> supports]

\* the triples added by a call and not removed by a later one
Added == IF call.phase = "none" THEN {} ELSE call.added

\* the pairs <<direct, derived>>: the call that stored the direct triple found
\* the parent that the derived triple names
Supports == IF call.phase = "none" THEN {} ELSE call.supports

\* the triples an inheritedRelations list derives for a new direct triple
DerivedBy(table, triple, inheritedRelations) ==
  { <<triple[1], inheritedRelations[k].relation,
      <<table[n].objectType, table[n].objectId>> >> :
      <<k, n>> \in
        { kn \in (DOMAIN inheritedRelations) \X (DOMAIN table) :
            /\ table[kn[2]].subjectType = triple[3][1]
            /\ table[kn[2]].subjectId = triple[3][2]
            /\ table[kn[2]].relation = inheritedRelations[kn[1]].fromRelation
            /\ table[kn[2]].objectType
                 = inheritedRelations[kn[1]].fromObjectType } }

LogAdd ==
  /\ \E t \in LogTriples, inheritedRelations \in LogLists :
       /\ addRelationWithCompute(t[1][1], t[1][2], t[2], t[3][1], t[3][2],
                                 inheritedRelations)
       /\ call' = LogCall("addRelationWithCompute", t, Added \cup {t},
                          IF hasRelationFast(t[1][1], t[1][2], t[2], t[3][1],
                                             t[3][2])
                          THEN Supports
                          ELSE Supports \cup
                                 {<<t, d>> : d \in
                                    DerivedBy(effectiveRelationships, t,
                                              inheritedRelations)})
  /\ RelFits
  /\ UNCHANGED <<stdVars, idxVars, now, roundTrip, relationships, traversal,
                 auditLog, userAttributes>>

LogRemove ==
  /\ \E t \in LogTriples :
       /\ removeRelationWithCompute(t[1][1], t[1][2], t[2], t[3][1], t[3][2])
       /\ call' = LogCall("removeRelationWithCompute", t, Added \ {t},
                          {p \in Supports : p[1] # t /\ p[2] # t})
  /\ UNCHANGED <<stdVars, idxVars, now, roundTrip, relationships, traversal,
                 auditLog, userAttributes>>

NextRelLog == LogAdd \/ LogRemove

SpecRelLog == Init /\ [][NextRelLog]_vars

----------------------------------------------------------------------------
(* C36 *)

\* C36: after addRelationWithCompute(s, rel, o), hasRelationFast(s, rel, o)
\* remains true until removeRelationWithCompute(s, rel, o) for that same
\* triple; removing a different relation never makes it false, including when
\* the triple already existed as a derived row at the time of the explicit
\* add.
C36_AddedStaysUntilRemoved ==
  \A t \in Added : hasRelationFast(t[1][1], t[1][2], t[2], t[3][1], t[3][2])

----------------------------------------------------------------------------
(* C37 *)

\* the direct triples that derived triple d and are still stored
Supporters(d) == {p[1] : p \in {q \in Supports : q[2] = d}}

\* C37: derived rows are reference-counted: a derived row (s, relation,
\* parent) supported by two or more direct rows of s is still present after
\* removeRelationWithCompute of only one supporting direct row; it disappears
\* only when the last supporting direct row is removed.
C37_DerivedRefCounted ==
  \A d \in {p[2] : p \in Supports} :
    Supporters(d) # {}
      => hasRelationFast(d[1][1], d[1][2], d[2], d[3][1], d[3][2])

----------------------------------------------------------------------------
(* SpecOrder: one caller adds a set of relations, in some order, to an      *)
(* empty table, passing the same inheritedRelations with every call; call   *)
(* holds the calls and how many of them have run                            *)

\* most calls of one run
MaxCalls == 3

\* the orders in which the subsets of LogTriples can be added
CallOrders ==
  UNION {{calls \in [1..n -> LogTriples] :
            \A i, j \in 1..n : calls[i] = calls[j] => i = j} : n \in 1..MaxCalls}

OrderRun(calls, inheritedRelations, done) == [phase |-> "running", calls |-> calls, inheritedRelations |-> inheritedRelations, done |-> done]

OrderIssue ==
  /\ call.phase = "none"
  /\ \E calls \in CallOrders, inheritedRelations \in LogLists :
       call' = OrderRun(calls, inheritedRelations, 0)
  /\ UNCHANGED <<stdVars, idxVars, now, roundTrip, relationships, traversal,
                 auditLog, newVars>>

OrderAdd ==
  /\ call.phase = "running"
  /\ call.done < Len(call.calls)
  /\ LET t == call.calls[call.done + 1]
     IN addRelationWithCompute(t[1][1], t[1][2], t[2], t[3][1], t[3][2],
                               call.inheritedRelations)
  /\ call' = [call EXCEPT !.done = call.done + 1]
  /\ UNCHANGED <<stdVars, idxVars, now, roundTrip, relationships, traversal,
                 auditLog, userAttributes>>

NextOrder == OrderIssue \/ OrderAdd

SpecOrder == Init /\ [][NextOrder]_vars

----------------------------------------------------------------------------
(* C38 *)

\* the table after the calls, from the k-th on, ran on it
RECURSIVE addAll(_, _, _, _)
addAll(table, calls, inheritedRelations, k) ==
  IF k > Len(calls) THEN table
  ELSE addAll(addRelationWithComputeOn(table, calls[k][1][1], calls[k][1][2],
                                       calls[k][2], calls[k][3][1],
                                       calls[k][3][2], inheritedRelations),
              calls, inheritedRelations, k + 1)

\* the triples for which hasRelationFast is true on the table
TrueTriples(table) ==
  {t \in LogTriples :
     hasRelationFastOn(table, t[1][1], t[1][2], t[2], t[3][1], t[3][2])}

\* C38: materialization does not depend on insertion order: for a fixed set
\* of relations and fixed inheritedRelations rules, the set of triples for
\* which hasRelationFast is true after all addRelationWithCompute calls is
\* the same for every order of the calls.
C38_OrderOfAddsIrrelevant ==
  (call.phase = "running" /\ call.done = Len(call.calls))
    => \A f \in Orderings(Len(call.calls)) :
         TrueTriples(addAll(<<>>, Reordered(call.calls, f),
                            call.inheritedRelations, 1))
           = TrueTriples(effectiveRelationships)

----------------------------------------------------------------------------
(* C39 *)

\* a permission string that names one resource and one action
Concrete(permission) ==
  /\ WellFormed(permission)
  /\ \A i \in 1..Len(permission) : permission[i] # "*"

\* C39: each concrete permission string listed in
\* getEffectivePermissions(...).permissions is allowed by checkPermission for
\* the same user, scope and role map, including when the user's deny
\* overrides are wildcard patterns such as "documents:*".
C39_ListedIsAllowed ==
  \A u \in Users, s \in QueryScopes, m \in RoleMaps :
    LET listed == getEffectivePermissions(u, m, s).permissions
    IN \A k \in 1..Len(listed) :
         Concrete(listed[k])
           => LET result == checkPermission(u, listed[k], s, m)
              IN ~result.threw /\ result.allowed

\* the same for the plain role map, where every override is a wildcard deny
ListedUnderWildcardDeny ==
  (\A n \in 1..Len(permissionOverrides) :
     /\ permissionOverrides[n].effect = "deny"
     /\ permissionOverrides[n].permission \in {DOCS_STAR, STAR})
  => \A u \in Users, s \in QueryScopes :
       LET listed == getEffectivePermissions(u, RoleMapPlain, s).permissions
       IN \A k \in 1..Len(listed) :
            Concrete(listed[k])
              => LET result == checkPermission(u, listed[k], s, RoleMapPlain)
                 IN ~result.threw /\ result.allowed

====
